---- MODULE Spec2Model ----
(***************************************************************************)
(* A model of the `interpreted` tree-walking interpreter:                  *)
(*   - the Tokenizer of src/src/interpreted/tokenizer.py, one action per   *)
(*     branch of Tokenizer.scan_token;                                     *)
(*   - the Interpreter of src/src/interpreted/interpreter.py, one visit_*  *)
(*     operator per visit_* method, exceptions carried as a signal;        *)
(*   - the Parser of src/src/interpreted/parser.py, one operator per       *)
(*     parse_* method, one action per statement parsed.                    *)
(***************************************************************************)
EXTENDS Integers, Sequences, FiniteSets, TLC

VARIABLES
    source,         \* Tokenizer.source: the characters, one string each
    tokens,         \* Tokenizer.tokens
    start,          \* Tokenizer.start (0-based, as in the code)
    next,           \* Tokenizer.next  (0-based)
    indents,        \* Tokenizer.indents: the stack of indent strings
    bracket_level,  \* Tokenizer.bracket_level
    tok_error,      \* the exception scan_tokens ended with, or "none"
    interp,         \* the Interpreter object and the objects it reaches
    body,           \* Module.body: the statements visit_Module has visited
    parser          \* the Parser object: index, the statements parsed, the exception

tok_vars == <<source, tokens, start, next, indents, bracket_level, tok_error>>

(***************************************************************************)
(* Bounds of the model.                                                    *)
(***************************************************************************)
MaxSrcLen == 6      \* longest source over the layout characters
MaxMixedLen == 3    \* longest source over every character class
MaxStmts == 4       \* longest module body
MaxCallDepth == 4   \* deepest nesting of user function calls
MaxLoopIters == 4   \* most iterations of one while loop
MaxDequeStmts == 6  \* longest module body of the deque programs
MaxLines == 3       \* most lines of a token list of one-word lines
MaxExprLen == 5     \* most tokens of an expression given to the parser

(***************************************************************************)
(* Characters.                                                             *)
(***************************************************************************)
NL == "\n"
LayoutChars == {"a", NL, " ", "(", ")"}
AllChars == {"a", "e", "_", "1", ".", NL, " ", "\t", "(", ")", "#", "*", "=", "'", "\\", "$"}

Whitespace == {"\f", "\t", "\r", NL, " "}
AssignOps == {"+", "-", "*", "/", "<", ">", "=", "!", "@", "%", "^", "&"}
Punctuation == {"~", "(", ")", "[", "]", "{", "}", ":", ";", ",", ".", "\\", "|"}
OpenBrackets == {"(", "[", "{"}
CloseBrackets == {")", "]", "}"}
Quotes == {"\"", "'"}
Digits == {"0", "1", "2", "3", "4", "5", "6", "7", "8", "9"}
Letters == {"a", "b", "e", "E", "n", "r", "t", "f"}
Escapable == {NL, "n", "r", "t", "f", "'", "\"", "\\"}

isdigit(c) == c \in Digits
isalpha(c) == c \in Letters
isalnum(c) == isalpha(c) \/ isdigit(c)

SeqsUpTo(S, n) == UNION {[1..k -> S] : k \in 0..n}
Sources == SeqsUpTo(LayoutChars, MaxSrcLen) \cup SeqsUpTo(AllChars, MaxMixedLen)

(***************************************************************************)
(* Tokenizer helpers (tokenizer.py 50-92).                                 *)
(***************************************************************************)
\* source[a:b] of Python, on a 1-based sequence
Slice(s, a, b) == SubSeq(s, a + 1, b)

in_parentheses == bracket_level > 0
scannedAt(n) == n >= Len(source)
scanned == scannedAt(next)
\* peek() with the cursor at n: "" when the source is exhausted
peekAt(n) == IF scannedAt(n) THEN "" ELSE source[n + 1]
peek_nextAt(n) == IF n + 1 >= Len(source) THEN "" ELSE source[n + 2]

Token(token_type, string, s, e) ==
    [token_type |-> token_type, string |-> string, start |-> s, end |-> e]
\* add_token with the cursor at n and the token start at s: the token appended
add_token(token_type, s, n) == Token(token_type, Slice(source, s, n), s, n - 1)

startswith(s, p) == Len(p) <= Len(s) /\ SubSeq(s, 1, Len(p)) = p
SeqContains(seq, x) == \E i \in 1..Len(seq) : seq[i] = x
\* list.index(x): 0-based position of the first occurrence
SeqIndex(seq, x) == (CHOOSE i \in 1..Len(seq) : seq[i] = x /\ \A j \in 1..(i - 1) : seq[j] # x) - 1

\* the cursor after `while not scanned and P(peek()): advance()`
RECURSIVE SkipWhile(_, _)
SkipWhile(n, S) ==
    IF ~scannedAt(n) /\ peekAt(n) \in S THEN SkipWhile(n + 1, S) ELSE n
RECURSIVE SkipUntil(_, _)
SkipUntil(n, c) ==
    IF ~scannedAt(n) /\ peekAt(n) # c THEN SkipUntil(n + 1, c) ELSE n

(***************************************************************************)
(* Tokenizer.detect_indent (tokenizer.py 154-188), entered with the cursor  *)
(* at n and the token start at s, after `toks` were emitted.  The result    *)
(* is the tokenizer's fields when it returns or raises.                     *)
(***************************************************************************)
RECURSIVE Dedents(_, _, _)
\* `for _ in range(count): indents.pop(); add_token(DEDENT)`: the tokens
Dedents(count, s, n) ==
    IF count = 0 THEN <<>>
    ELSE <<add_token("DEDENT", s, n)>> \o Dedents(count - 1, n, n)

\* a tokenizer that takes any mix of tabs and spaces
IndentConsistent_Always(indent, current_indent) == TRUE

\* the indent of the line is consistent with the innermost open indent
IndentConsistent(indent, current_indent) ==
    startswith(indent, current_indent) \/ startswith(current_indent, indent)

\* a dedent that leaves the outermost open level unclosed
dedent_count_OneShort(stack, indent) == Len(stack) - (SeqIndex(stack, indent) + 1) - 1

\* how many levels a dedent to `indent` closes
dedent_count(stack, indent) == Len(stack) - (SeqIndex(stack, indent) + 1)

detect_indent(toks, s, n0) ==
    LET n == SkipWhile(n0, {" ", "\t"})
        indent == Slice(source, n0, n)
        current_indent == indents[Len(indents)]
        same == [tokens |-> toks, start |-> s, next |-> n, indents |-> indents,
                 error |-> "none"]
    IN  IF ~IndentConsistent(indent, current_indent)
            THEN [same EXCEPT !.error = "TokenizeError"]
        ELSE IF current_indent = indent
            THEN [same EXCEPT !.start = n]
        ELSE IF Len(indent) > Len(current_indent)
            THEN [tokens |-> Append(toks, add_token("INDENT", s, n)), start |-> n,
                  next |-> n, indents |-> Append(indents, indent), error |-> "none"]
        ELSE IF ~SeqContains(indents, indent)
            THEN [same EXCEPT !.error = "TokenizeError"]
        ELSE LET count == dedent_count(indents, indent)
             IN  [tokens |-> toks \o Dedents(count, s, n), start |-> n, next |-> n,
                  indents |-> SubSeq(indents, 1, Len(indents) - count),
                  error |-> "none"]

(***************************************************************************)
(* Tokenizer.scan_string (tokenizer.py 205-251), entered with the cursor   *)
(* after the opening quote.  The result is the cursor and how it ended:    *)
(* "token" (a STRING is added) or the exception raised.                    *)
(***************************************************************************)
RECURSIVE scan_string_loop(_, _, _)
scan_string_loop(n, quote_char, is_multiline) ==
    IF scannedAt(n)
        THEN [next |-> n, end |-> "TokenizeIncompleteError"]
    ELSE LET char == source[n + 1]
             n1 == n + 1
         IN  IF is_multiline /\ char = quote_char /\ peekAt(n1) = quote_char
                    /\ peek_nextAt(n1) = quote_char
                 THEN [next |-> n1 + 2, end |-> "token"]
             ELSE IF ~is_multiline /\ char = quote_char
                 THEN [next |-> n1, end |-> "token"]
             ELSE IF char # "\\"
                 THEN scan_string_loop(n1, quote_char, is_multiline)
             ELSE IF peekAt(n1) = ""
                 THEN [next |-> n1, end |-> "TokenizeIncompleteError"]
             ELSE IF peekAt(n1) \in Escapable
                 THEN scan_string_loop(n1, quote_char, is_multiline)
             ELSE [next |-> n1, end |-> "TokenizeError"]

scan_string(n, quote_char) ==
    IF peekAt(n) = quote_char /\ peek_nextAt(n) = quote_char
        THEN scan_string_loop(n + 2, quote_char, TRUE)
        ELSE scan_string_loop(n, quote_char, FALSE)

(***************************************************************************)
(* Tokenizer.scan_number (tokenizer.py 253-269): the cursor at its end.    *)
(***************************************************************************)
scan_number(n) ==
    LET n1 == SkipWhile(n, Digits)
        n2 == IF peekAt(n1) = "." /\ isdigit(peek_nextAt(n1))
                  THEN SkipWhile(n1 + 1, Digits) ELSE n1
        \* `self.peek() in "eE"` also holds of the "" peek() gives at the end
        n3 == IF peekAt(n2) \in {"e", "E", ""} /\ isdigit(peek_nextAt(n2))
                  THEN SkipWhile(n2 + 1, Digits) ELSE n2
    IN  n3

\* Tokenizer.scan_identifier (tokenizer.py 198-203): the cursor at its end
scan_identifier(n) == SkipWhile(n, Letters \cup Digits \cup {"_"})

\* Tokenizer.scan_comment (tokenizer.py 190-196): the cursor at its end
scan_comment(n) == SkipUntil(n, NL)

(***************************************************************************)
(* Tokenizer.scan_token (tokenizer.py 101-152): one action per branch.     *)
(* Every action reads one character (read_char) and is enabled while       *)
(* scan_tokens' loop runs: no exception yet, source not exhausted.         *)
(***************************************************************************)
Scanning == tok_error = "none" /\ ~scanned
char == source[next + 1]

\* a tokenizer that forgets the bracket counter
NewlineStartsLine_IgnoringBrackets(c) == c = NL

\* line 105: a newline starts a new logical line only outside brackets
NewlineStartsLine(c) == c = NL /\ ~in_parentheses

ScanNewline ==
    /\ Scanning
    /\ UNCHANGED <<interp, body, parser>>
    /\ NewlineStartsLine(char)
    /\ LET r == detect_indent(Append(tokens, add_token("NEWLINE", start, next + 1)),
                              next + 1, next + 1)
       IN  /\ tokens' = r.tokens
           /\ start' = r.start
           /\ next' = r.next
           /\ indents' = r.indents
           /\ tok_error' = r.error
    /\ UNCHANGED <<source, bracket_level>>

ScanWhitespace ==
    /\ Scanning
    /\ UNCHANGED <<interp, body, parser>>
    /\ ~NewlineStartsLine(char)
    /\ char \in Whitespace
    /\ next' = next + 1
    /\ start' = next + 1
    /\ UNCHANGED <<source, tokens, indents, bracket_level, tok_error>>

ScanPower ==
    /\ Scanning
    /\ UNCHANGED <<interp, body, parser>>
    /\ char = "*" /\ peekAt(next + 1) = "*"
    /\ LET n == IF peekAt(next + 2) = "=" THEN next + 3 ELSE next + 2
       IN  /\ tokens' = Append(tokens, add_token("OP", start, n))
           /\ next' = n
           /\ start' = n
    /\ UNCHANGED <<source, indents, bracket_level, tok_error>>

ScanComment ==
    /\ Scanning
    /\ UNCHANGED <<interp, body, parser>>
    /\ char = "#"
    \* line 123: advance() once more, then scan_comment
    /\ LET n == scan_comment(next + 2)
       IN  /\ next' = n
           /\ start' = n
    /\ UNCHANGED <<source, tokens, indents, bracket_level, tok_error>>

ScanAssignOp ==
    /\ Scanning
    /\ UNCHANGED <<interp, body, parser>>
    /\ char \in AssignOps
    /\ ~(char = "*" /\ peekAt(next + 1) = "*")
    /\ LET n == IF peekAt(next + 1) = "=" THEN next + 2 ELSE next + 1
       IN  /\ tokens' = Append(tokens, add_token("OP", start, n))
           /\ next' = n
           /\ start' = n
    /\ UNCHANGED <<source, indents, bracket_level, tok_error>>

ScanPunctuation ==
    /\ Scanning
    /\ UNCHANGED <<interp, body, parser>>
    /\ char \in Punctuation
    /\ tokens' = Append(tokens, add_token("OP", start, next + 1))
    /\ next' = next + 1
    /\ start' = next + 1
    /\ bracket_level' =
          IF char \in OpenBrackets THEN bracket_level + 1
          ELSE IF char \in CloseBrackets /\ bracket_level > 0 THEN bracket_level - 1
          ELSE bracket_level
    /\ UNCHANGED <<source, indents, tok_error>>

ScanString ==
    /\ Scanning
    /\ UNCHANGED <<interp, body, parser>>
    /\ char \in Quotes
    /\ LET r == scan_string(next + 1, char)
       IN  /\ next' = r.next
           /\ IF r.end = "token"
                 THEN /\ tokens' = Append(tokens, add_token("STRING", start, r.next))
                      /\ start' = r.next
                      /\ tok_error' = "none"
                 ELSE /\ tok_error' = r.end
                      /\ UNCHANGED <<tokens, start>>
    /\ UNCHANGED <<source, indents, bracket_level>>

ScanNumber ==
    /\ Scanning
    /\ UNCHANGED <<interp, body, parser>>
    /\ isdigit(char)
    /\ LET n == scan_number(next + 1)
       IN  /\ tokens' = Append(tokens, add_token("NUMBER", start, n))
           /\ next' = n
           /\ start' = n
    /\ UNCHANGED <<source, indents, bracket_level, tok_error>>

ScanIdentifier ==
    /\ Scanning
    /\ UNCHANGED <<interp, body, parser>>
    /\ isalpha(char) \/ char = "_"
    /\ LET n == scan_identifier(next + 1)
       IN  /\ tokens' = Append(tokens, add_token("NAME", start, n))
           /\ next' = n
           /\ start' = n
    /\ UNCHANGED <<source, indents, bracket_level, tok_error>>

ScanUnknown ==
    /\ Scanning
    /\ UNCHANGED <<interp, body, parser>>
    /\ char \notin Whitespace \cup AssignOps \cup Punctuation \cup Quotes
                   \cup Digits \cup Letters \cup {"#", "_"}
    /\ next' = next + 1
    /\ tok_error' = "TokenizeError"
    /\ UNCHANGED <<source, tokens, start, indents, bracket_level>>

\* Tokenizer.scan_tokens (tokenizer.py 94-99): scan_token until scanned
TokNext ==
    \/ ScanNewline
    \/ ScanWhitespace
    \/ ScanPower
    \/ ScanComment
    \/ ScanAssignOp
    \/ ScanPunctuation
    \/ ScanString
    \/ ScanNumber
    \/ ScanIdentifier
    \/ ScanUnknown


(***************************************************************************)
(* Properties of the tokenizer.                                            *)
(***************************************************************************)
CountType(toks, ty) == Cardinality({i \in 1..Len(toks) : toks[i].token_type = ty})
LayoutTypes == {"NEWLINE", "INDENT", "DEDENT"}
Tokenized == scanned /\ tok_error = "none"

\* C3: every NEWLINE (and INDENT, DEDENT) token is emitted by a scan_token
\* call that began with bracket_level = 0, and a scan_token call that reads
\* a newline with bracket_level > 0 emits no token and leaves the indent
\* stack as it was.
C3_NewlineOnlyAtDepthZero ==
    [][ /\ \A i \in (Len(tokens) + 1)..Len(tokens') :
              tokens'[i].token_type \in LayoutTypes => bracket_level = 0
        /\ (char = NL /\ bracket_level > 0) =>
              (tokens' = tokens /\ indents' = indents)
      ]_tok_vars

\* a newline directly after an open bracket has just been read as whitespace
C3_Witness ==
    /\ tok_error = "none"
    /\ next >= 2
    /\ next <= Len(source)
    /\ start = next
    /\ source[next] = NL
    /\ source[next - 1] = "("
    /\ bracket_level > 0
    /\ CountType(tokens, "NEWLINE") = 0
    /\ Len(tokens) > 0

\* C4 as stated: at the end of a source that tokenizes without error there
\* are as many DEDENT tokens as INDENT tokens.
C4_IndentsClosedAtEnd ==
    Tokenized => CountType(tokens, "DEDENT") = CountType(tokens, "INDENT")

\* the last character of the source is a newline that emitted a NEWLINE
EndsWithNewlineToken ==
    \E i \in 1..Len(tokens) :
        tokens[i].token_type = "NEWLINE" /\ tokens[i].start = Len(source) - 1

\* C4 amended: no prefix of the token list holds more DEDENTs than INDENTs,
\* and when the source ends with a newline that emits NEWLINE, the scanned
\* source has as many DEDENTs as INDENTs and only the base indent is open.
C4_IndentsClosedAfterFinalNewline ==
    /\ \A k \in 0..Len(tokens) :
          CountType(SubSeq(tokens, 1, k), "DEDENT") <= CountType(SubSeq(tokens, 1, k), "INDENT")
    /\ (Tokenized /\ EndsWithNewlineToken) =>
          /\ CountType(tokens, "DEDENT") = CountType(tokens, "INDENT")
          /\ indents = <<<<>>>>

\* two nested indents closed by the final newline
C4_Witness ==
    /\ Tokenized
    /\ EndsWithNewlineToken
    /\ CountType(tokens, "INDENT") = 2
    /\ CountType(tokens, "DEDENT") = 2

(***************************************************************************)
(*                          THE INTERPRETER                                *)
(*                                                                         *)
(* interp is the state the Interpreter works on:                           *)
(*   scope, globals   the two cursors of Interpreter (ids into scopes)     *)
(*   scopes           every Scope object: [data, parent], parent 0 = None  *)
(*   heap             the mutable containers (Deque, List): their _data    *)
(*   out              what print has written, one entry per call           *)
(*   exc, exc_value   the exception that is propagating ("none" if none),  *)
(*                    and the value a Return carries                       *)
(*   val              the value the last visit returned                    *)
(*   depth            the number of user function calls in progress        *)
(*   loop             history: the loop whose body is running (0: none)    *)
(*   log              history: what the visitors did, in order             *)
(***************************************************************************)

(***************************************************************************)
(* AST nodes (nodes.py).                                                   *)
(***************************************************************************)
Constant(v) == [type |-> "Constant", value |-> v]
Name(id) == [type |-> "Name", id |-> id]
Call(function, args) == [type |-> "Call", function |-> function, args |-> args]
Attribute(value, attr) == [type |-> "Attribute", value |-> value, attr |-> attr]
BinOp(left, op, right) == [type |-> "BinOp", left |-> left, op |-> op, right |-> right]
BoolOp(left, op, right) == [type |-> "BoolOp", left |-> left, op |-> op, right |-> right]
UnaryOp(value, op) == [type |-> "UnaryOp", value |-> value, op |-> op]
Compare(left, op, right) == [type |-> "Compare", left |-> left, op |-> op, right |-> right]
ListNode(elements) == [type |-> "List", elements |-> elements]
TupleNode(elements) == [type |-> "Tuple", elements |-> elements]
ExprStmt(value) == [type |-> "ExprStmt", value |-> value]
Assign(targets, value) == [type |-> "Assign", targets |-> targets, value |-> value]
If(condition, b, orelse) == [type |-> "If", condition |-> condition, body |-> b, orelse |-> orelse]
While(condition, b, orelse) == [type |-> "While", condition |-> condition, body |-> b, orelse |-> orelse]
For(target, iterable, b, orelse) ==
    [type |-> "For", target |-> target, iterable |-> iterable, body |-> b, orelse |-> orelse]
FunctionDef(name, params, b, decorators) ==
    [type |-> "FunctionDef", name |-> name, params |-> params, body |-> b,
     decorators |-> decorators]
Decorator(value) == [type |-> "Decorator", value |-> value]
Return(value) == [type |-> "Return", value |-> value]
Pass == [type |-> "Pass"]
Break == [type |-> "Break"]
Continue == [type |-> "Continue"]
alias(name, asname) == [name |-> name, asname |-> asname]
Import(names) == [type |-> "Import", names |-> names]
ImportFrom(module, names) == [type |-> "ImportFrom", module |-> module, names |-> names]
Module(b) == [type |-> "Module", body |-> b]

(***************************************************************************)
(* Runtime values (interpreter.py 34, 59-433).                             *)
(***************************************************************************)
NOT_SET == [kind |-> "NOT_SET"]
\* Python's own None, what a call without a return statement gives
PyNone == [kind |-> "PyNone"]
\* Value(None), Value(int), Value(bool), Value(str)
None == [kind |-> "Value", ty |-> "NoneType"]
IntV(i) == [kind |-> "Value", ty |-> "int", int |-> i]
BoolV(b) == [kind |-> "Value", ty |-> "bool", bool |-> b]
StrV(str) == [kind |-> "Value", ty |-> "str", str |-> str]
Builtin(kind) == [kind |-> kind]
UserFunction(definition, parent_scope, current_globals) ==
    [kind |-> "UserFunction", definition |-> definition,
     parent_scope |-> parent_scope, current_globals |-> current_globals]
DequeObj(ref) == [kind |-> "Deque", ref |-> ref]
ListObj(ref) == [kind |-> "List", ref |-> ref]
TupleObj(data) == [kind |-> "Tuple", data |-> data]
\* Dict(keys, values): _dict as the list of its <<key, value>> items
DictObj(items) == [kind |-> "Dict", items |-> items]
\* a bound method: Append(wrapper), PopLeft(deque)
Method(kind, wrapper) == [kind |-> kind, wrapper |-> wrapper]
\* Module(members=module_scope.data): members is the dict of that scope, held
\* here as the scope's index
ModuleObj(members) == [kind |-> "Module", members |-> members]

FunctionKinds == {"Print", "Len", "Int", "Float", "DequeConstructor", "Enumerate",
                  "UserFunction", "Append", "PopLeft"}
\* isinstance(v, Function)
IsFunction(v) == v.kind \in FunctionKinds
IsValue(v) == v.kind = "Value"

\* bool(obj.value) of a Value
ValueTruth(v) ==
    CASE v.ty = "NoneType" -> FALSE
      [] v.ty = "bool" -> v.bool
      [] v.ty \in {"int", "float"} -> v.int # 0
      [] v.ty = "str" -> v.str # ""

\* is_truthy (interpreter.py 429-433)
is_truthy(obj) == IF IsValue(obj) THEN ValueTruth(obj) ELSE TRUE

\* the int a bool or int Value stands for in arithmetic and comparison
NumOf(v) == IF v.ty = "bool" THEN (IF v.bool THEN 1 ELSE 0) ELSE v.int
IsNum(v) == IsValue(v) /\ v.ty \in {"int", "bool"}
\* left.value == right.value of two Values
ValueEq(a, b) ==
    IF IsNum(a) /\ IsNum(b) THEN NumOf(a) = NumOf(b)
    ELSE IF a.ty # b.ty THEN FALSE
    ELSE IF a.ty = "str" THEN a.str = b.str
    ELSE TRUE

(***************************************************************************)
(* Scope (interpreter.py 37-52).                                           *)
(***************************************************************************)
BuiltinNames == {"print", "len", "int", "float", "deque", "enumerate"}
\* Scope.__init__: the data of a new Scope
ScopeData ==
    [n \in BuiltinNames |->
        CASE n = "print" -> Builtin("Print")
          [] n = "len" -> Builtin("Len")
          [] n = "int" -> Builtin("Int")
          [] n = "float" -> Builtin("Float")
          [] n = "deque" -> Builtin("DequeConstructor")
          [] n = "enumerate" -> Builtin("Enumerate")]
NewScope(parent) == [data |-> ScopeData, parent |-> parent]

\* Scope.get
Scope_get(st, sid, name) ==
    IF name \in DOMAIN st.scopes[sid].data THEN st.scopes[sid].data[name] ELSE NOT_SET
\* Scope.set
Scope_set(st, sid, name, value) ==
    [st EXCEPT !.scopes[sid].data = (name :> value) @@ @]

\* the number of elements of a container or string, -1 for what has none
SizeOf(obj, st) ==
    CASE obj.kind \in {"List", "Deque"} -> Len(st.heap[obj.ref])
      [] obj.kind = "Tuple" -> Len(obj.data)
      [] IsValue(obj) /\ obj.ty = "str" -> Len(obj.str)
      [] OTHER -> -1

\* Interpreter.__init__ (interpreter.py 437-439)
NewInterpreter ==
    [scope |-> 1, globals |-> 1, scopes |-> <<NewScope(0)>>, heap |-> <<>>,
     out |-> <<>>, exc |-> "none", exc_value |-> PyNone, val |-> PyNone,
     depth |-> 0, loop |-> 0, log |-> <<>>]

\* a visitor returns v / raises e
Returns(st, v) == [st EXCEPT !.val = v]
Raises(st, e) == [st EXCEPT !.exc = e, !.val = PyNone]
Raised(st) == st.exc # "none"
Logged(st, event) == [st EXCEPT !.log = Append(@, event)]

(***************************************************************************)
(* Interpreter.visit (interpreter.py 441-444) is defined last; the visit_* *)
(* operators below take the node and the state, and give the state after:  *)
(* st.val is what the method returns, st.exc what it raises.               *)
(***************************************************************************)
RECURSIVE visit(_, _)

\* [self.visit(n) for n in nodes]: the state after and the values
RECURSIVE visit_each(_, _, _)
visit_each(nodes, st, vals) ==
    IF Len(nodes) = 0 \/ Raised(st) THEN [st |-> st, vals |-> vals]
    ELSE LET st1 == visit(Head(nodes), st)
         IN  visit_each(Tail(nodes), st1,
                        IF Raised(st1) THEN vals ELSE Append(vals, st1.val))

\* `for stmt in stmts: self.visit(stmt)`, left by the first exception
RECURSIVE visit_block(_, _)
visit_block(stmts, st) ==
    IF Len(stmts) = 0 \/ Raised(st) THEN st
    ELSE visit_block(Tail(stmts), visit(Head(stmts), st))

\* visit_Constant (interpreter.py 849-850): Value(node.value); the Constant
\* nodes of the model carry the constant as that Value
visit_Constant(node, st) == Returns(st, node.value)

\* the while loop of visit_Name (823-828): the first scope from sid up the
\* parent links that binds name, 0 when the links end at None
RECURSIVE FindScope(_, _, _)
FindScope(st, sid, name) ==
    IF sid = 0 THEN 0
    ELSE IF Scope_get(st, sid, name) # NOT_SET THEN sid
    ELSE FindScope(st, st.scopes[sid].parent, name)

\* visit_Name (interpreter.py 819-834)
visit_Name(node, st) ==
    LET found == FindScope(st, st.scope, node.id)
        where == IF found # 0 THEN found
                 ELSE IF Scope_get(st, st.globals, node.id) # NOT_SET THEN st.globals
                 ELSE 0
        st1 == Logged(st, [ev |-> "lookup", name |-> node.id, scope |-> st.scope,
                           found |-> where,
                           val |-> IF where = 0 THEN NOT_SET
                                   ELSE Scope_get(st, where, node.id),
                           bound |-> {sid \in 1..Len(st.scopes) :
                                         Scope_get(st, sid, node.id) # NOT_SET}])
    IN  IF where = 0 THEN Raises(st1, "InterpreterError")
        ELSE Returns(st1, Scope_get(st, where, node.id))

(***************************************************************************)
(* The builtin functions and the bound methods (interpreter.py 86-305).    *)
(***************************************************************************)
\* Function.ensure_args (86-90)
ArgsOk(args, arg_count) == Len(args) = arg_count

\* Print.call (103-104): no ensure_args; as_string of every argument
Print_call(args, st) ==
    IF \E i \in 1..Len(args) : args[i] = PyNone THEN Raises(st, "AttributeError")
    ELSE Returns([st EXCEPT !.out = Append(@, args)], PyNone)

\* Len.call (114-124)
Len_call(args, st) ==
    IF ~ArgsOk(args, 1) THEN Raises(st, "InterpreterError")
    ELSE LET item == args[1]
         IN  IF item.kind \in {"List", "Deque"}
                 THEN Returns(st, IntV(Len(st.heap[item.ref])))
             ELSE IF item.kind = "Tuple" THEN Returns(st, IntV(Len(item.data)))
             ELSE IF IsValue(item) /\ item.ty = "str" THEN Returns(st, IntV(Len(item.str)))
             ELSE Raises(st, "InterpreterError")

\* Int.call (147-154), on the values of the model: int and bool
Int_call(args, st) ==
    IF ~ArgsOk(args, 1) THEN Raises(st, "InterpreterError")
    ELSE IF IsNum(args[1]) THEN Returns(st, IntV(NumOf(args[1])))
    ELSE IF IsValue(args[1]) /\ args[1].ty = "str" THEN Raises(st, "ValueError")
    ELSE Raises(st, "InterpreterError")

\* Float.call (164-171), on the values of the model: int and bool
Float_call(args, st) ==
    IF ~ArgsOk(args, 1) THEN Raises(st, "InterpreterError")
    ELSE IF IsNum(args[1])
        THEN Returns(st, [kind |-> "Value", ty |-> "float", int |-> NumOf(args[1])])
    ELSE IF IsValue(args[1]) /\ args[1].ty = "str" THEN Raises(st, "ValueError")
    ELSE Raises(st, "InterpreterError")

\* DequeConstructor.call (240-242) and Deque.__init__ (246-252)
DequeConstructor_call(args, st) ==
    IF ~ArgsOk(args, 0) THEN Raises(st, "InterpreterError")
    ELSE Returns([st EXCEPT !.heap = Append(@, <<>>)], DequeObj(Len(st.heap) + 1))

\* Enumerate.call (134-137) is a generator function: the call runs none of
\* its code and gives a generator object
Enumerate_call(args, st) ==
    Returns(st, [kind |-> "generator", of |-> "Enumerate", args |-> args])

\* collections.deque.append / list.append
Deque_append(data, item) == Append(data, item)

\* a deque that gives up its newest element
Deque_popleft_Newest(data) == [item |-> data[Len(data)], rest |-> SubSeq(data, 1, Len(data) - 1)]

\* collections.deque.popleft on a deque that is not empty
Deque_popleft(data) == [item |-> Head(data), rest |-> Tail(data)]

\* Append.call (269-272)
Append_call(self, args, st) ==
    IF ~ArgsOk(args, 1) THEN Raises(st, "InterpreterError")
    ELSE Returns([st EXCEPT !.heap[self.wrapper.ref] = Deque_append(@, args[1])], PyNone)

\* PopLeft.call (303-305)
PopLeft_call(self, args, st) ==
    IF ~ArgsOk(args, 0) THEN Raises(st, "InterpreterError")
    ELSE IF Len(st.heap[self.wrapper.ref]) = 0 THEN Raises(st, "IndexError")
    ELSE LET r == Deque_popleft(st.heap[self.wrapper.ref])
         IN  Returns([st EXCEPT !.heap[self.wrapper.ref] = r.rest], r.item)

(***************************************************************************)
(* UserFunction.call (interpreter.py 206-230).                             *)
(***************************************************************************)
\* `for param, arg in zip(params, args): function_scope.set(param, arg)`
RECURSIVE BindParams(_, _, _, _)
BindParams(params, args, sid, st) ==
    IF Len(params) = 0 THEN st
    ELSE BindParams(Tail(params), Tail(args), sid,
                    Scope_set(st, sid, Head(params), Head(args)))

\* a call scope hung under the caller's scope
CallScopeParent_Caller(self, st) == st.scope

\* line 212: the parent of the call's scope is the function's defining scope
CallScopeParent(self, st) == self.parent_scope

\* a call that restores the cursors only when the body ends normally or returns
RestoreCursors_NoFinally(st, current_scope, parent_globals) ==
    IF st.exc \in {"none", "Return"}
        THEN [st EXCEPT !.scope = current_scope, !.globals = parent_globals]
        ELSE st

\* lines 226-228: the finally clause
RestoreCursors(st, current_scope, parent_globals) ==
    [st EXCEPT !.scope = current_scope, !.globals = parent_globals]

\* a call that lets the Return go on to the caller's caller
CallResult_ReturnEscapes(st) == IF Raised(st) THEN st ELSE Returns(st, None)

\* lines 223-224, 230: Return is caught and its value returned; a body that
\* ends gives Value(None); any other exception goes on
CallResult(st) ==
    IF st.exc = "Return"
        THEN [st EXCEPT !.exc = "none", !.val = st.exc_value, !.exc_value = PyNone]
    ELSE IF Raised(st) THEN st
    ELSE Returns(st, None)

UserFunction_call(self, args, st) ==
    IF ~ArgsOk(args, Len(self.definition.params)) THEN Raises(st, "InterpreterError")
    ELSE IF st.depth >= MaxCallDepth THEN Raises(st, "RecursionError")
    ELSE LET current_scope == st.scope
             parent_globals == st.globals
             function_scope == Len(st.scopes) + 1
             st1 == [Logged(st, [ev |-> "frame", scope |-> function_scope,
                                 function |-> self, caller |-> current_scope])
                        EXCEPT !.scopes = Append(@, NewScope(CallScopeParent(self, st))),
                               !.globals = self.current_globals,
                               !.scope = function_scope,
                               !.depth = @ + 1,
                               !.loop = 0]
             st2 == BindParams(self.definition.params, args, function_scope, st1)
             st3 == visit_block(self.definition.body, st2)
             st4 == RestoreCursors(st3, current_scope, parent_globals)
         IN  CallResult([st4 EXCEPT !.depth = st.depth, !.loop = st.loop])

\* function.call(self, arguments), by the class of the function; the call
\* and how it ended are written to the history
Function_call(function, args, st) ==
    LET st0 == Logged(st, [ev |-> "call", function |-> function, args |-> args,
                           scope |-> st.scope, globals |-> st.globals,
                           depth |-> st.depth])
        st1 == CASE function.kind = "Print" -> Print_call(args, st0)
                 [] function.kind = "Len" -> Len_call(args, st0)
                 [] function.kind = "Int" -> Int_call(args, st0)
                 [] function.kind = "Float" -> Float_call(args, st0)
                 [] function.kind = "DequeConstructor" -> DequeConstructor_call(args, st0)
                 [] function.kind = "Enumerate" -> Enumerate_call(args, st0)
                 [] function.kind = "Append" -> Append_call(function, args, st0)
                 [] function.kind = "PopLeft" -> PopLeft_call(function, args, st0)
                 [] function.kind = "UserFunction" -> UserFunction_call(function, args, st0)
    IN  Logged(st1, [ev |-> "exit", function |-> function, exc |-> st1.exc,
                     val |-> st1.val, scope |-> st1.scope, globals |-> st1.globals,
                     depth |-> st.depth])

\* visit_Call (interpreter.py 750-758)
visit_Call(node, st) ==
    LET st1 == visit(node.function, st)
    IN  IF Raised(st1) THEN st1
        ELSE IF ~IsFunction(st1.val) THEN Raises(st1, "InterpreterError")
        ELSE LET r == visit_each(node.args, st1, <<>>)
             IN  IF Raised(r.st) THEN r.st
                 ELSE Function_call(st1.val, r.vals, r.st)

(***************************************************************************)
(* Expressions (interpreter.py 638-748, 804-847).                          *)
(***************************************************************************)
\* left.value + right.value and the like, of two Values
Arith(op, l, r) ==
    IF IsNum(l) /\ IsNum(r)
        THEN CASE op = "+" -> [ok |-> TRUE, v |-> IntV(NumOf(l) + NumOf(r))]
               [] op = "-" -> [ok |-> TRUE, v |-> IntV(NumOf(l) - NumOf(r))]
               [] op = "*" -> [ok |-> TRUE, v |-> IntV(NumOf(l) * NumOf(r))]
    ELSE IF op = "+" /\ l.ty = "str" /\ r.ty = "str"
        THEN [ok |-> TRUE, v |-> StrV(l.str \o r.str)]
    ELSE [ok |-> FALSE, v |-> PyNone]

\* visit_BinOp (698-717); `//` and the operators it does not implement are
\* outside the model's programs
visit_BinOp(node, st) ==
    LET st1 == visit(node.left, st)
        st2 == visit(node.right, st1)
    IN  IF Raised(st1) THEN st1
        ELSE IF Raised(st2) THEN st2
        ELSE IF ~IsValue(st1.val) \/ ~IsValue(st2.val) THEN Raises(st2, "InterpreterError")
        ELSE IF node.op \notin {"+", "-", "*"} THEN Raises(st2, "NotImplementedError")
        ELSE LET r == Arith(node.op, st1.val, st2.val)
             IN  IF r.ok THEN Returns(st2, r.v) ELSE Raises(st2, "TypeError")

\* Python's `a and b`, `a or b` on the wrapped values
PyAnd(l, r) == IF ValueTruth(l) THEN r ELSE l
PyOr(l, r) == IF ValueTruth(l) THEN l ELSE r

\* visit_BoolOp (719-734): both operands are visited, then combined; the
\* value of the left operand and the visit of the right one are written to
\* the history
visit_BoolOp(node, st) ==
    LET st1 == visit(node.left, st)
        st2 == visit(node.right,
                     Logged(st1, [ev |-> "bool_right", op |-> node.op, left |-> st1.val]))
    IN  IF Raised(st1) THEN st1
        ELSE IF Raised(st2) THEN st2
        ELSE IF ~IsValue(st1.val) \/ ~IsValue(st2.val) THEN Raises(st2, "InterpreterError")
        ELSE IF node.op = "and" THEN Returns(st2, PyAnd(st1.val, st2.val))
        ELSE IF node.op = "or" THEN Returns(st2, PyOr(st1.val, st2.val))
        ELSE Raises(st2, "AssertionError")

\* visit_UnaryOp (736-748)
visit_UnaryOp(node, st) ==
    LET st1 == visit(node.value, st)
    IN  IF Raised(st1) THEN st1
        ELSE IF ~IsValue(st1.val) THEN Raises(st1, "InterpreterError")
        ELSE IF node.op = "not" THEN Returns(st1, BoolV(~ValueTruth(st1.val)))
        ELSE IF node.op = "+" THEN st1
        ELSE IF node.op = "-"
            THEN IF IsNum(st1.val) THEN Returns(st1, IntV(0 - NumOf(st1.val)))
                 ELSE Raises(st1, "TypeError")
        ELSE Raises(st1, "AssertionError")

\* the strings of the programs, as what `left in right` of two strings splits
StringParts == {"", "a", "b", "ab", "ba"}
\* `left in right` of two strings (682)
IsSubstring(left, right) == \E p \in StringParts, q \in StringParts : p \o left \o q = right

\* what `for element in right` goes over (685-689): the elements of a list,
\* tuple or deque, the keys of a dict
ElementsOf(st, obj) ==
    CASE obj.kind \in {"List", "Deque"} -> st.heap[obj.ref]
      [] obj.kind = "Tuple" -> obj.data
      [] obj.kind = "Dict" -> [i \in 1..Len(obj.items) |-> obj.items[i][1]]

\* any(isinstance(element, Value) and element.value == left for element in right);
\* left is the unwrapped lhs: the value of a Value, else a list or dict that
\* no element.value equals
AnyEquals(elements, lhs) ==
    \E i \in 1..Len(elements) :
        IsValue(elements[i]) /\ IsValue(lhs) /\ ValueEq(elements[i], lhs)

ContainerKinds == {"List", "Tuple", "Deque", "Dict"}

\* the `in` and `not in` branches of visit_Compare (680-692), with what
\* follows them when neither returns (693-696)
Membership(node, st, l, r) ==
    LET done(res) == Logged(res, [ev |-> "member", op |-> node.op, probe |-> l, container |-> r,
                                 elements |-> IF r.kind \in ContainerKinds
                                                  THEN ElementsOf(st, r) ELSE <<>>,
                                 exc |-> res.exc, gave |-> res.val])
    IN  IF l.kind \notin ContainerKinds \cup {"Value"} \/ r.kind \notin ContainerKinds \cup {"Value"}
            THEN Raises(st, "InterpreterError")
        ELSE IF IsValue(r) /\ r.ty = "str"
            THEN IF ~(IsValue(l) /\ l.ty = "str") THEN done(Raises(st, "TypeError"))
                 ELSE done(Returns(st, BoolV(IF node.op = "in" THEN IsSubstring(l.str, r.str)
                                             ELSE ~IsSubstring(l.str, r.str))))
        ELSE IF node.op = "in" /\ r.kind \in {"List", "Tuple", "Deque", "Dict"}
            THEN done(Returns(st, BoolV(AnyEquals(ElementsOf(st, r), l))))
        ELSE IF node.op = "not in" /\ r.kind \in {"List", "Tuple", "Deque"}
            THEN done(Returns(st, BoolV(~AnyEquals(ElementsOf(st, r), l))))
        \* `is` and `is not` are not the operator: raise NotImplementedError(node)
        ELSE done(Raises(st, "NotImplementedError"))

\* visit_Compare (638-696): == != < > <= >= on two Values, in and not in
visit_Compare(node, st) ==
    LET st1 == visit(node.left, st)
        st2 == visit(node.right, st1)
        l == st1.val
        r == st2.val
    IN  IF Raised(st1) THEN st1
        ELSE IF Raised(st2) THEN st2
        ELSE IF node.op \in {"in", "not in"} THEN Membership(node, st2, l, r)
        ELSE IF ~IsValue(l) \/ ~IsValue(r) THEN Raises(st2, "Unmodelled")
        ELSE IF node.op = "==" THEN Returns(st2, BoolV(ValueEq(l, r)))
        ELSE IF node.op = "!=" THEN Returns(st2, BoolV(~ValueEq(l, r)))
        ELSE IF node.op \in {"<", ">", "<=", ">="}
            THEN IF ~(IsNum(l) /\ IsNum(r)) THEN Raises(st2, "TypeError")
                 ELSE Returns(st2, BoolV(CASE node.op = "<" -> NumOf(l) < NumOf(r)
                                           [] node.op = ">" -> NumOf(l) > NumOf(r)
                                           [] node.op = "<=" -> NumOf(l) <= NumOf(r)
                                           [] node.op = ">=" -> NumOf(l) >= NumOf(r)))
        ELSE Raises(st2, "Unmodelled")

\* obj.methods of the objects that have methods (251-252, 392)
MethodsOf(obj) ==
    CASE obj.kind = "Deque" -> {"append", "popleft"}
      [] obj.kind = "List" -> {"append"}
      [] OTHER -> {}
MethodKind(attr) == IF attr = "append" THEN "Append" ELSE "PopLeft"

\* visit_Attribute (804-817)
visit_Attribute(node, st) ==
    LET st1 == visit(node.value, st)
        obj == st1.val
    IN  IF Raised(st1) THEN st1
        ELSE IF obj = PyNone THEN Raises(st1, "AssertionError")
        \* UserFunction.__init__ (190-198) never sets attributes
        ELSE IF obj.kind \in {"UserFunction", "generator"} THEN Raises(st1, "AttributeError")
        ELSE IF obj.kind = "Module" /\ Scope_get(st1, obj.members, node.attr) # NOT_SET
            THEN Returns(st1, Scope_get(st1, obj.members, node.attr))
        ELSE IF node.attr \in MethodsOf(obj)
            THEN Returns(st1, Method(MethodKind(node.attr), obj))
        ELSE Raises(st1, "InterpreterError")

\* visit_List (836-838)
visit_List(node, st) ==
    LET r == visit_each(node.elements, st, <<>>)
    IN  IF Raised(r.st) THEN r.st
        ELSE Returns([r.st EXCEPT !.heap = Append(@, r.vals)], ListObj(Len(r.st.heap) + 1))

\* visit_Tuple (840-842)
visit_Tuple(node, st) ==
    LET r == visit_each(node.elements, st, <<>>)
    IN  IF Raised(r.st) THEN r.st ELSE Returns(r.st, TupleObj(r.vals))

\* Dict.__init__ (411-413): {key: value for key, value in zip(keys, values)},
\* as the list of its items; a key met again keeps its place and takes the
\* later value.  Keys are equal when both are Values of equal value.
KeyEq(a, b) == IF IsValue(a) /\ IsValue(b) THEN ValueEq(a, b) ELSE a = b
RECURSIVE DictItems(_, _, _)
DictItems(keys, values, items) ==
    IF Len(keys) = 0 THEN items
    ELSE LET k == Head(keys)
             v == Head(values)
             at == {i \in 1..Len(items) : KeyEq(items[i][1], k)}
         IN  DictItems(Tail(keys), Tail(values),
                       IF at = {} THEN Append(items, <<k, v>>)
                       ELSE [i \in 1..Len(items) |->
                                IF i \in at THEN <<items[i][1], v>> ELSE items[i]])

\* visit_Dict (844-847)
visit_Dict(node, st) ==
    LET keys == visit_each(node.keys, st, <<>>)
        values == visit_each(node.values, keys.st, <<>>)
    IN  IF Raised(keys.st) THEN keys.st
        ELSE IF Raised(values.st) THEN values.st
        ELSE Returns(values.st, DictObj(DictItems(keys.vals, values.vals, <<>>)))

(***************************************************************************)
(* Simple statements (interpreter.py 510-533, 623-636).                    *)
(***************************************************************************)
Reverse(seq) == [i \in 1..Len(seq) |-> seq[Len(seq) + 1 - i]]

\* decorators applied top down
DecoratorOrder_TopDown(decorators) == decorators

\* line 514: reversed(node.decorators)
DecoratorOrder(decorators) == Reverse(decorators)

\* lines 516-523: each decorator is evaluated and called on the function so far
RECURSIVE ApplyDecorators(_, _, _)
ApplyDecorators(decorators, function, st) ==
    IF Len(decorators) = 0 THEN Returns(st, function)
    ELSE LET st1 == visit(Head(decorators).value, st)
         IN  IF Raised(st1) THEN st1
             ELSE IF ~IsFunction(st1.val) THEN Raises(st1, "InterpreterError")
             ELSE LET st2 == Function_call(st1.val, <<function>>, st1)
                  IN  IF Raised(st2) THEN st2
                      ELSE ApplyDecorators(Tail(decorators), st2.val, st2)

\* visit_FunctionDef (510-525)
visit_FunctionDef(node, st) ==
    LET function == UserFunction(node, st.scope, st.globals)
        st1 == ApplyDecorators(DecoratorOrder(node.decorators), function, st)
    IN  IF Raised(st1) THEN st1
        ELSE LET st2 == Scope_set(st1, st1.scope, node.name, st1.val)
             IN  Returns(Logged(st2, [ev |-> "def", node |-> node, function |-> function,
                                      scope |-> st2.scope, depth |-> st2.depth,
                                      bound |-> Scope_get(st2, st2.scope, node.name)]),
                         PyNone)

\* an assignment that rebinds the name where it is bound already
AssignScope_Binder(st, name) ==
    LET found == FindScope(st, st.scope, name) IN IF found # 0 THEN found ELSE st.scope

\* line 533: the scope a Name target is written to, `self.scope`
AssignScope(st, name) == st.scope

\* the binding of a Name target (532-533), written to the history with the
\* scopes whose bindings it changed and the other scopes that bind the name
Assign_Name(st, name, value) ==
    LET r == Scope_set(st, AssignScope(st, name), name, value)
    IN  Logged(r, [ev |-> "assign", scope |-> st.scope, name |-> name, value |-> value,
                   bound |-> Scope_get(r, st.scope, name),
                   changed |-> {sid \in 1..Len(st.scopes) : r.scopes[sid] # st.scopes[sid]},
                   elsewhere |-> {sid \in 1..Len(st.scopes) :
                                     sid # st.scope /\ Scope_get(st, sid, name) # NOT_SET}])

\* visit_Assign (527-558), for a Name target
visit_Assign(node, st) ==
    LET st1 == visit(node.value, st)
    IN  IF Raised(st1) THEN st1
        ELSE IF Len(node.targets) # 1 THEN Raises(st1, "AssertionError")
        ELSE IF node.targets[1].type = "Name"
            THEN Returns(Assign_Name(st1, node.targets[1].id, st1.val), PyNone)
        ELSE Raises(st1, "Unmodelled")

\* raise Break / Continue / Return(value): written to the history
Signal(st, exc, value) ==
    [Logged(st, [ev |-> "raise", exc |-> exc, scope |-> st.scope, loop |-> st.loop,
                 depth |-> st.depth, val |-> value])
        EXCEPT !.exc = exc, !.exc_value = value, !.val = PyNone]

\* visit_Break, visit_Continue (623-627)
visit_Break(node, st) == Signal(st, "Break", PyNone)
visit_Continue(node, st) == Signal(st, "Continue", PyNone)

\* visit_Return (629-630)
visit_Return(node, st) ==
    LET st1 == visit(node.value, st)
    IN  IF Raised(st1) THEN st1 ELSE Signal(st1, "Return", st1.val)

\* visit_Pass (632-633)
visit_Pass(node, st) == Returns(st, PyNone)

\* visit_ExprStmt (635-636)
visit_ExprStmt(node, st) ==
    LET st1 == visit(node.value, st)
    IN  IF Raised(st1) THEN st1 ELSE Returns(st1, PyNone)

\* is_truthy(obj) of a condition, written to the history with the object
Tested(st, obj) ==
    Logged(st, [ev |-> "test", val |-> obj, size |-> SizeOf(obj, st),
                truthy |-> is_truthy(obj)])

\* visit_If (577-583)
visit_If(node, st) ==
    LET st1 == visit(node.condition, st)
        st2 == Tested(st1, st1.val)
    IN  IF Raised(st1) THEN st1
        ELSE IF is_truthy(st1.val) THEN visit_block(node.body, st2)
        ELSE visit_block(node.orelse, st2)

(***************************************************************************)
(* Loops (interpreter.py 585-621).  Every loop execution gets an id, the   *)
(* position of its "loop" event in the history; st.loop is the id of the   *)
(* innermost loop running in the current call, 0 outside loops.            *)
(***************************************************************************)
\* what `for element in elements` iterates over: a Python list, a List
\* (__iter__, 398-399) or the generator of enumerate (136-137); everything
\* else has no __iter__
Iteration(src, st) ==
    IF src.kind = "pylist" THEN [exc |-> "none", data |-> src.data]
    ELSE IF src.kind = "List" THEN [exc |-> "none", data |-> st.heap[src.ref]]
    ELSE IF src.kind = "generator"
        THEN IF ~ArgsOk(src.args, 1) THEN [exc |-> "InterpreterError", data |-> <<>>]
             ELSE IF src.args[1].kind # "List" THEN [exc |-> "TypeError", data |-> <<>>]
             ELSE [exc |-> "none",
                   data |-> [i \in 1..Len(st.heap[src.args[1].ref]) |->
                                TupleObj(<<IntV(i - 1), st.heap[src.args[1].ref][i]>>)]]
    ELSE [exc |-> "TypeError", data |-> <<>>]

\* lines 597-599: targets bound to value._data[idx]
RECURSIVE BindUnpack(_, _, _, _)
BindUnpack(target, data, idx, st) ==
    IF idx > Len(target) THEN st
    ELSE BindUnpack(target, data, idx + 1,
                    IF target[idx].type = "Name"
                        THEN Scope_set(st, st.scope, target[idx].id, data[idx])
                        ELSE st)

\* lines 591-602: the loop variables of one iteration; an unpacking is
\* written to the history with the element and the values the targets have
\* afterwards
BindTargets(target, value, st) ==
    IF Len(target) > 1
        THEN LET r == IF value.kind \notin {"Tuple", "List", "Deque"}
                          THEN Raises(st, "AttributeError")
                      ELSE LET data == IF value.kind = "Tuple" THEN value.data
                                       ELSE st.heap[value.ref]
                           IN  IF Len(target) > Len(data) THEN Raises(st, "Exception")
                               ELSE BindUnpack(target, data, 1, st)
             IN  Logged(r, [ev |-> "unpack", targets |-> Len(target), value |-> value,
                            size |-> SizeOf(value, st), exc |-> r.exc,
                            bound |-> [i \in 1..Len(target) |->
                                          Scope_get(r, r.scope, target[i].id)]])
    ELSE IF target[1].type = "Name" THEN Scope_set(st, st.scope, target[1].id, value)
    ELSE st

\* a loop that takes break for continue
AfterBody_BreakContinues(exc) ==
    IF exc \in {"none", "Continue", "Break"} THEN "next" ELSE "raise"

\* lines 603-609, 613-619: what the loop does when a pass over its body has
\* ended with exc: `except Break: return`, `except Continue: break`, the
\* next iteration when the body ran to its end, and no handler otherwise
AfterBody(exc) ==
    CASE exc = "Break" -> "exit"
      [] exc \in {"none", "Continue"} -> "next"
      [] OTHER -> "raise"

\* the loop is over: written to the history, the enclosing loop is current again
LoopExit(st, lid, outer, why) ==
    [Logged(st, [ev |-> "loop_exit", loop |-> lid, why |-> why])
        EXCEPT !.loop = outer, !.exc = "none", !.val = PyNone]
\* an exception that the loop does not handle leaves it
LoopAbort(st, lid, outer) ==
    [Logged(st, [ev |-> "loop_abort", loop |-> lid, exc |-> st.exc]) EXCEPT !.loop = outer]

\* the iterations of visit_For from element i on (590-609)
RECURSIVE For_loop(_, _, _, _, _, _)
For_loop(node, src, i, st, lid, outer) ==
    LET it == Iteration(src, st)
    IN  IF it.exc # "none" THEN LoopAbort(Raises(st, it.exc), lid, outer)
        ELSE IF i > Len(it.data) THEN LoopExit(st, lid, outer, "exhausted")
        ELSE LET st1 == Logged(st, [ev |-> "iter", loop |-> lid])
                 st2 == BindTargets(node.target, it.data[i], st1)
                 st3 == visit_block(node.body, st2)
                 after == AfterBody(st3.exc)
             IN  IF Raised(st2) THEN LoopAbort(st2, lid, outer)
                 ELSE IF after = "exit" THEN LoopExit(st3, lid, outer, "break")
                 ELSE IF after = "next"
                     THEN For_loop(node, src, i + 1, [st3 EXCEPT !.exc = "none"], lid, outer)
                 ELSE LoopAbort(st3, lid, outer)

\* visit_For (585-609)
visit_For(node, st) ==
    LET r == IF Len(node.iterable) = 1
                 THEN LET s1 == visit(node.iterable[1], st)
                      IN  [st |-> s1, src |-> s1.val]
                 ELSE LET e == visit_each(node.iterable, st, <<>>)
                      IN  [st |-> e.st, src |-> [kind |-> "pylist", data |-> e.vals]]
        lid == Len(r.st.log) + 1
    IN  IF Raised(r.st) THEN r.st
        ELSE For_loop(node, r.src, 1,
                      [Logged(r.st, [ev |-> "loop", loop |-> lid, kind |-> "For",
                                     orelse |-> node.orelse, iterable |-> r.src])
                          EXCEPT !.loop = lid],
                      lid, st.loop)

\* the iterations of visit_While after n passes (612-619); a loop that has
\* made MaxLoopIters passes is cut off
RECURSIVE While_loop(_, _, _, _, _)
While_loop(node, n, st, lid, outer) ==
    LET st0 == Logged(st, [ev |-> "cond", loop |-> lid])
        st1 == visit(node.condition, st0)
        tested == Tested(st1, st1.val)
        st2 == Logged(tested, [ev |-> "iter", loop |-> lid])
        st3 == visit_block(node.body, st2)
        after == AfterBody(st3.exc)
    IN  IF Raised(st1) THEN LoopAbort(st1, lid, outer)
        ELSE IF ~is_truthy(st1.val) THEN LoopExit(tested, lid, outer, "exhausted")
        ELSE IF n >= MaxLoopIters THEN LoopAbort(Raises(tested, "CutOff"), lid, outer)
        ELSE IF after = "exit" THEN LoopExit(st3, lid, outer, "break")
        ELSE IF after = "next"
            THEN While_loop(node, n + 1, [st3 EXCEPT !.exc = "none"], lid, outer)
        ELSE LoopAbort(st3, lid, outer)

\* visit_While (611-621)
visit_While(node, st) ==
    LET lid == Len(st.log) + 1
    IN  While_loop(node, 0,
                   [Logged(st, [ev |-> "loop", loop |-> lid, kind |-> "While",
                                 orelse |-> node.orelse])
                       EXCEPT !.loop = lid],
                   lid, st.loop)

(***************************************************************************)
(* Modules and imports (interpreter.py 446-508).                           *)
(***************************************************************************)
\* the files below the working directory that an import can open, each by
\* its path and as the Module that parse gives for it:
\*   a.py:  print("a")        b.py:  import a        m.py:  def nest(f):
\*          x = 1                    y = 2                      return f()
\*   p/q.py:  z = 3           x.y.py:  w = 4
Files ==
    [n \in {"a.py", "b.py", "m.py", "p/q.py", "x.y.py"} |->
        CASE n = "a.py" ->
                Module(<<ExprStmt(Call(Name("print"), <<Constant(StrV("a"))>>)),
                         Assign(<<Name("x")>>, Constant(IntV(1)))>>)
          [] n = "b.py" ->
                Module(<<Import(<<alias("a", "")>>),
                         Assign(<<Name("y")>>, Constant(IntV(2)))>>)
          [] n = "m.py" ->
                Module(<<FunctionDef("nest", <<"f">>,
                                     <<Return(Call(Name("f"), <<>>))>>, <<>>)>>)
          [] n = "p/q.py" -> Module(<<Assign(<<Name("z")>>, Constant(IntV(3)))>>)
          [] n = "x.y.py" -> Module(<<Assign(<<Name("w")>>, Constant(IntV(4)))>>)]
\* f"{alias.name}.py" (457) and f"{module_name}.py" (481)
FileName(name) == name \o ".py"

\* visit_Module (446-448)
visit_Module(node, st) == visit_block(node.body, st)

\* lines 456-468 and 480-492: the file is opened and parsed, and its module
\* is visited in a new Scope that is both scope and globals; the execution
\* is written to the history
RunModule(name, st) ==
    LET path == FileName(name)
        opened == Logged(st, [ev |-> "open", module |-> name, path |-> path])
    IN  IF path \notin DOMAIN Files THEN Raises(opened, "FileNotFoundError")
        ELSE LET module_scope == Len(st.scopes) + 1
                 st1 == [Logged(opened, [ev |-> "exec", module |-> name, path |-> path])
                            EXCEPT !.scopes = Append(@, NewScope(0)),
                                   !.scope = module_scope,
                                   !.globals = module_scope,
                                   !.loop = 0]
             IN  [visit(Files[path], st1) EXCEPT !.loop = st.loop]

\* the loop of visit_Import (450-475)
RECURSIVE Import_names(_, _)
Import_names(names, st) ==
    IF Len(names) = 0 THEN Returns(st, PyNone)
    ELSE LET name == IF Head(names).asname # "" THEN Head(names).asname
                     ELSE Head(names).name
             module_scope == Len(st.scopes) + 1
             st1 == RunModule(Head(names).name, st)
             st2 == [st1 EXCEPT !.scope = st.scope, !.globals = st.globals]
         IN  IF Raised(st1) THEN st1
             ELSE Import_names(Tail(names),
                               Scope_set(st2, st2.scope, name, ModuleObj(module_scope)))

\* visit_Import (450-475)
visit_Import(node, st) == Import_names(node.names, st)

\* `for member, value in module_scope.data.items(): self.scope.set(member, value)`
BindAll(st, module_scope) ==
    [st EXCEPT !.scopes[st.scope].data = st.scopes[module_scope].data @@ @]

\* the loop of visit_ImportFrom (495-508)
RECURSIVE ImportFrom_names(_, _, _)
ImportFrom_names(names, module_scope, st) ==
    IF Len(names) = 0 THEN Returns(st, PyNone)
    ELSE IF Head(names).name = "*" THEN Returns(BindAll(st, module_scope), PyNone)
    ELSE LET name == IF Head(names).asname # "" THEN Head(names).asname
                     ELSE Head(names).name
         IN  ImportFrom_names(Tail(names), module_scope,
                              Scope_set(st, st.scope, name,
                                        Scope_get(st, module_scope, Head(names).name)))

\* visit_ImportFrom (477-508)
visit_ImportFrom(node, st) ==
    LET module_scope == Len(st.scopes) + 1
        st1 == RunModule(node.module, st)
        st2 == [st1 EXCEPT !.scope = st.scope, !.globals = st.globals]
    IN  IF Raised(st1) THEN st1
        ELSE ImportFrom_names(node.names, module_scope, st2)

(***************************************************************************)
(* Interpreter.visit (interpreter.py 441-444): dispatch on the node type.  *)
(* Every statement visited is written to the history with the scope and    *)
(* the loop it runs in.                                                    *)
(***************************************************************************)
StatementTypes == {"Assign", "ExprStmt", "If", "While", "For", "FunctionDef", "Return",
                   "Pass", "Break", "Continue", "Import", "ImportFrom"}

visit(node, st) ==
    LET s == IF node.type \in StatementTypes
                 THEN Logged(st, [ev |-> "stmt", type |-> node.type, scope |-> st.scope,
                                  loop |-> st.loop, depth |-> st.depth])
                 ELSE st
    IN  CASE node.type = "Constant" -> visit_Constant(node, s)
          [] node.type = "Name" -> visit_Name(node, s)
          [] node.type = "Call" -> visit_Call(node, s)
          [] node.type = "Attribute" -> visit_Attribute(node, s)
          [] node.type = "BinOp" -> visit_BinOp(node, s)
          [] node.type = "BoolOp" -> visit_BoolOp(node, s)
          [] node.type = "UnaryOp" -> visit_UnaryOp(node, s)
          [] node.type = "Compare" -> visit_Compare(node, s)
          [] node.type = "List" -> visit_List(node, s)
          [] node.type = "Tuple" -> visit_Tuple(node, s)
          [] node.type = "Dict" -> visit_Dict(node, s)
          [] node.type = "Assign" -> visit_Assign(node, s)
          [] node.type = "ExprStmt" -> visit_ExprStmt(node, s)
          [] node.type = "If" -> visit_If(node, s)
          [] node.type = "While" -> visit_While(node, s)
          [] node.type = "For" -> visit_For(node, s)
          [] node.type = "FunctionDef" -> visit_FunctionDef(node, s)
          [] node.type = "Return" -> visit_Return(node, s)
          [] node.type = "Pass" -> visit_Pass(node, s)
          [] node.type = "Break" -> visit_Break(node, s)
          [] node.type = "Continue" -> visit_Continue(node, s)
          [] node.type = "Import" -> visit_Import(node, s)
          [] node.type = "ImportFrom" -> visit_ImportFrom(node, s)
          [] node.type = "Module" -> visit_Module(node, s)

(***************************************************************************)
(* The Parser (parser.py 47-665).  A parse_* method becomes an operator of *)
(* the token list ts and the cursor i (Parser.index, 0-based as in the     *)
(* code) that gives [err, at, node, index]: the exception the method       *)
(* raised ("none" if it returned), the index a ParseError carries, the     *)
(* node (or list of nodes) returned and the cursor afterwards.  The string *)
(* of a token is a string here, where the tokenizer model keeps the        *)
(* characters apart.                                                       *)
(***************************************************************************)
\* the nodes of nodes.py that only the parser makes
Subscript(value, key) == [type |-> "Subscript", value |-> value, key |-> key]
SliceNode(first, last) == [type |-> "Slice", start |-> first, end |-> last]
DictNode(keys, values) == [type |-> "Dict", keys |-> keys, values |-> values]
AugAssign(target, op, value) == [type |-> "AugAssign", target |-> target, op |-> op, value |-> value]
NoNode == [type |-> "NoNode"]

\* parser.py imports EOF from the tokenizer (line 39), where the sources do
\* not define it: the token that stands for the end of the input
EOF == Token("EOF", "", 0, 0)

\* a method returned node with the cursor at i / raised err
Parsed(node, i) == [err |-> "none", at |-> 0, node |-> node, index |-> i]
Failed(err, at, i) == [err |-> err, at |-> at, node |-> NoNode, index |-> i]

\* `x = r; ...`: r is worked out once and F goes on with it
Bind(r, F(_)) == CHOOSE v \in {F(x) : x \in {r}} : TRUE
\* a call that may raise: the exception of r, or F with what r returned
Try(r, F(_)) == CHOOSE v \in {IF x.err # "none" THEN x ELSE F(x) : x \in {r}} : TRUE

\* Parser.parsed (117-119)
Parser_parsed(ts, i) == i >= Len(ts)
\* Parser.current (124-128): tokens[index - 1], the last token when index = 0
Parser_current(ts, i) ==
    IF Parser_parsed(ts, i) THEN EOF ELSE IF i = 0 THEN ts[Len(ts)] ELSE ts[i]
\* Parser.peek (130-134)
Parser_peek(ts, i) == IF Parser_parsed(ts, i) THEN EOF ELSE ts[i + 1]
\* Parser.peek_next (136-140)
Parser_peek_next(ts, i) == IF i + 1 >= Len(ts) THEN EOF ELSE ts[i + 2]

\* match_type, match_name, match_op (142-164): whether the token at the
\* cursor matches; the caller moves the cursor by one when it does
match_type(ts, i, token_types) == Parser_peek(ts, i).token_type \in token_types
match_name(ts, i, names) ==
    Parser_peek(ts, i).token_type = "NAME" /\ Parser_peek(ts, i).string \in names
match_op(ts, i, ops) ==
    Parser_peek(ts, i).token_type = "OP" /\ Parser_peek(ts, i).string \in ops

\* expect (166-172) and expect_op (174-177): ParseError(..., self.index)
expect(ts, i, token_types) ==
    IF match_type(ts, i, token_types) THEN Parsed(NoNode, i + 1)
    ELSE Failed("ParseError", i, i)
expect_op(ts, i, op) ==
    IF match_op(ts, i, {op}) THEN Parsed(NoNode, i + 1) ELSE Failed("ParseError", i, i)
\* expect(TokenType.NAME) and the current().string that follows it
expect_name(ts, i) ==
    IF match_type(ts, i, {"NAME"}) THEN Parsed(Parser_current(ts, i + 1).string, i + 1)
    ELSE Failed("ParseError", i, i)

\* keyword.iskeyword
Keywords ==
    {"False", "None", "True", "and", "as", "assert", "async", "await", "break",
     "class", "continue", "def", "del", "elif", "else", "except", "finally", "for",
     "from", "global", "if", "import", "in", "is", "lambda", "nonlocal", "not", "or",
     "pass", "raise", "return", "try", "while", "with", "yield"}
iskeyword(s) == s \in Keywords

\* str.isdigit and int() on the strings of the NUMBER tokens in use
DigitStrings == <<"0", "1", "2", "3", "4", "5", "6", "7", "8", "9">>
str_isdigit(s) == \E n \in 1..Len(DigitStrings) : DigitStrings[n] = s
int_of(s) == (CHOOSE n \in 1..Len(DigitStrings) : DigitStrings[n] = s) - 1
\* ast.literal_eval on the strings of the STRING tokens in use
StringLiterals == ("'a'" :> "a") @@ ("''" :> "")

\* self.parse_...(): the method of that name at cursor i, defined below.
\* memo holds what the methods that close a cycle of calls return at the
\* cursors after the one in work (a method reads the tokens and the cursor
\* only, so its result at a cursor never changes): a call at such a cursor
\* takes its result from there
RECURSIVE Parse(_, _, _, _)

\* one `key : value` of a dict display (649-651, 654-656)
parse_dict_item(ts, i, memo) ==
    Try(Parse("parse_expression", ts, i, memo), LAMBDA k :
    Try(expect_op(ts, k.index, ":"), LAMBDA c :
    Try(Parse("parse_expression", ts, c.index, memo), LAMBDA v :
        Parsed(<<k.node, v.node>>, v.index))))

\* the pairs after the first of a dict display (652-660)
RECURSIVE parse_dict_more(_, _, _, _, _)
parse_dict_more(ts, i, keys, values, memo) ==
    IF match_op(ts, i, {","})
        THEN Try(Parse("parse_dict_item", ts, i + 1, memo), LAMBDA kv :
                 parse_dict_more(ts, kv.index, Append(keys, kv.node[1]),
                                 Append(values, kv.node[2]), memo))
    ELSE Try(expect_op(ts, i, "}"), LAMBDA c : Parsed(DictNode(keys, values), c.index))

\* the elements between brackets and the closing bracket (635-636, 644-645,
\* 594-595)
parse_bracketed(ts, i, close, memo) ==
    Try(Parse("parse_expressions", ts, i, memo), LAMBDA es :
    Try(expect_op(ts, es.index, close), LAMBDA c : Parsed(es.node, c.index)))

\* parse_literal (604-665)
parse_literal(ts, i, memo) ==
    LET token == Parser_current(ts, i + 1)
    IN  IF match_type(ts, i, {"NAME"})
            THEN IF token.string \in {"True", "False", "None"} \/ ~iskeyword(token.string)
                     THEN Parsed(CASE token.string = "True" -> Constant(BoolV(TRUE))
                                   [] token.string = "False" -> Constant(BoolV(FALSE))
                                   [] token.string = "None" -> Constant(None)
                                   [] OTHER -> Name(token.string),
                                 i + 1)
                 ELSE Failed("ParseError", i, i + 1)
        ELSE IF match_type(ts, i, {"NUMBER"})
            THEN IF str_isdigit(token.string)
                     THEN Parsed(Constant(IntV(int_of(token.string))), i + 1)
                 ELSE IF token.string = "" THEN Failed("ValueError", 0, i + 1)
                 ELSE Failed("Unmodelled", 0, i + 1)
        ELSE IF match_type(ts, i, {"STRING"})
            THEN IF token.string = "" THEN Failed("SyntaxError", 0, i + 1)
                 ELSE IF token.string \in DOMAIN StringLiterals
                     THEN Parsed(Constant(StrV(StringLiterals[token.string])), i + 1)
                 ELSE Failed("Unmodelled", 0, i + 1)
        ELSE IF match_op(ts, i, {"("})
            THEN IF match_op(ts, i + 1, {")"}) THEN Parsed(TupleNode(<<>>), i + 2)
                 ELSE Try(parse_bracketed(ts, i + 1, ")", memo), LAMBDA es :
                          Parsed(TupleNode(es.node), es.index))
        ELSE IF match_op(ts, i, {"["})
            THEN IF match_op(ts, i + 1, {"]"}) THEN Parsed(ListNode(<<>>), i + 2)
                 ELSE Try(parse_bracketed(ts, i + 1, "]", memo), LAMBDA es :
                          Parsed(ListNode(es.node), es.index))
        ELSE IF match_op(ts, i, {"{"})
            THEN IF match_op(ts, i + 1, {"}"}) THEN Parsed(DictNode(<<>>, <<>>), i + 2)
                 ELSE Try(Parse("parse_dict_item", ts, i + 1, memo), LAMBDA kv :
                          parse_dict_more(ts, kv.index, <<kv.node[1]>>, <<kv.node[2]>>, memo))
        ELSE Failed("ParseError", i, i)

\* an expression and the ']' after it (561-562, 572-574, 577)
parse_until_bracket(ts, i, memo) ==
    Try(Parse("parse_expression", ts, i, memo), LAMBDA e :
    Try(expect_op(ts, e.index, "]"), LAMBDA c : Parsed(e.node, c.index)))

\* the keys between '[' and ']' (553-577), the cursor after the '['
parse_subscript_keys(ts, i, memo) ==
    IF match_op(ts, i, {":"})
        THEN IF match_op(ts, i + 1, {"]"})
                 THEN Parsed(<<Constant(None), Constant(None)>>, i + 2)
             ELSE Try(Parse("parse_until_bracket", ts, i + 1, memo), LAMBDA e :
                      Parsed(<<Constant(None), e.node>>, e.index))
    ELSE Try(Parse("parse_expression", ts, i, memo), LAMBDA key :
             IF match_op(ts, key.index, {":"})
                 THEN IF match_op(ts, key.index + 1, {"]"})
                          THEN Parsed(<<key.node, Constant(None)>>, key.index + 2)
                      ELSE Try(Parse("parse_until_bracket", ts, key.index + 1, memo), LAMBDA e :
                               Parsed(<<key.node, e.node>>, e.index))
             ELSE Try(expect_op(ts, key.index, "]"), LAMBDA c :
                      Parsed(<<key.node>>, c.index)))

\* the loop of parse_primary (546-600) with primary parsed so far
RECURSIVE parse_primary_more(_, _, _, _)
parse_primary_more(ts, primary, i, memo) ==
    IF match_op(ts, i, {"."})
        THEN Try(expect_name(ts, i + 1), LAMBDA attrname :
                 parse_primary_more(ts, Attribute(primary, attrname.node), attrname.index, memo))
    ELSE IF match_op(ts, i, {"["})
        THEN Try(Parse("parse_subscript_keys", ts, i + 1, memo), LAMBDA keys :
                 parse_primary_more(
                     ts,
                     IF Len(keys.node) = 1 THEN Subscript(primary, keys.node[1])
                     ELSE Subscript(primary, SliceNode(keys.node[1], keys.node[2])),
                     keys.index, memo))
    ELSE IF match_op(ts, i, {"("})
        THEN IF match_op(ts, i + 1, {")"})
                 THEN parse_primary_more(ts, Call(primary, <<>>), i + 2, memo)
             ELSE Try(parse_bracketed(ts, i + 1, ")", memo), LAMBDA args :
                      parse_primary_more(ts, Call(primary, args.node), args.index, memo))
    ELSE Parsed(primary, i)

\* parse_primary (543-602)
parse_primary(ts, i, memo) ==
    Try(Parse("parse_literal", ts, i, memo), LAMBDA primary :
        parse_primary_more(ts, primary.node, primary.index, memo))

\* the loop of parse_power (536-539): the operator is current().string
RECURSIVE parse_power_more(_, _, _, _)
parse_power_more(ts, left, i, memo) ==
    IF match_op(ts, i, {"**"})
        THEN Try(Parse("parse_unary", ts, i + 1, memo), LAMBDA right :
                 parse_power_more(ts, BinOp(left, Parser_current(ts, i + 1).string, right.node),
                                  right.index, memo))
    ELSE Parsed(left, i)

\* parse_power (534-541)
parse_power(ts, i, memo) ==
    Try(Parse("parse_primary", ts, i, memo), LAMBDA left :
        parse_power_more(ts, left.node, left.index, memo))

\* parse_unary (527-532)
parse_unary(ts, i, memo) ==
    IF match_op(ts, i, {"~", "+", "-"})
        THEN Try(Parse("parse_unary", ts, i + 1, memo), LAMBDA value :
                 Parsed(UnaryOp(value.node, Parser_current(ts, i + 1).string), value.index))
    ELSE Parse("parse_power", ts, i, memo)

\* the loop of parse_factor (520-523)
RECURSIVE parse_factor_more(_, _, _, _)
parse_factor_more(ts, left, i, memo) ==
    IF match_op(ts, i, {"*", "/", "//", "%", "@"})
        THEN Try(Parse("parse_unary", ts, i + 1, memo), LAMBDA right :
                 parse_factor_more(ts, BinOp(left, Parser_current(ts, i + 1).string, right.node),
                                   right.index, memo))
    ELSE Parsed(left, i)

\* parse_factor (518-525)
parse_factor(ts, i, memo) ==
    Try(Parse("parse_unary", ts, i, memo), LAMBDA left :
        parse_factor_more(ts, left.node, left.index, memo))

\* a parser without the multiplicative level: * and / are taken in the loop
\* of parse_sum like + and -
RECURSIVE parse_sum_more_OneLevel(_, _, _, _)
parse_sum_more_OneLevel(ts, left, i, memo) ==
    IF match_op(ts, i, {"+", "-", "*", "/", "//", "%", "@"})
        THEN Try(Parse("parse_unary", ts, i + 1, memo), LAMBDA right :
                 parse_sum_more_OneLevel(
                     ts, BinOp(left, Parser_current(ts, i + 1).string, right.node), right.index, memo))
    ELSE Parsed(left, i)
parse_sum_OneLevel(ts, i, memo) ==
    Try(Parse("parse_unary", ts, i, memo), LAMBDA left :
        parse_sum_more_OneLevel(ts, left.node, left.index, memo))

\* the loop of parse_sum (511-514)
RECURSIVE parse_sum_more(_, _, _, _)
parse_sum_more(ts, left, i, memo) ==
    IF match_op(ts, i, {"+", "-"})
        THEN Try(Parse("parse_factor", ts, i + 1, memo), LAMBDA right :
                 parse_sum_more(ts, BinOp(left, Parser_current(ts, i + 1).string, right.node),
                                right.index, memo))
    ELSE Parsed(left, i)

\* parse_sum (509-516)
parse_sum(ts, i, memo) ==
    Try(Parse("parse_factor", ts, i, memo), LAMBDA left :
        parse_sum_more(ts, left.node, left.index, memo))

\* the operator at the cursor of parse_comparison (487-502) and the number
\* of tokens it takes, 0 when there is none
comparison_operator(ts, i) ==
    IF match_op(ts, i, {"<", ">", "<=", ">=", "==", "!="})
        THEN [op |-> Parser_current(ts, i + 1).string, size |-> 1]
    ELSE IF Parser_peek(ts, i).string = "is" /\ Parser_peek_next(ts, i).string = "not"
        THEN [op |-> "is not", size |-> 2]
    ELSE IF Parser_peek(ts, i).string = "not" /\ Parser_peek_next(ts, i).string = "in"
        THEN [op |-> "not in", size |-> 2]
    ELSE IF match_name(ts, i, {"in", "is"})
        THEN [op |-> Parser_current(ts, i + 1).string, size |-> 1]
    ELSE [op |-> "", size |-> 0]

\* the loop of parse_comparison (486-505)
RECURSIVE parse_comparison_more(_, _, _, _)
parse_comparison_more(ts, left, i, memo) ==
    LET operator == comparison_operator(ts, i)
    IN  IF operator.size = 0 THEN Parsed(left, i)
        ELSE Try(Parse("parse_sum", ts, i + operator.size, memo), LAMBDA right :
                 parse_comparison_more(ts, Compare(left, operator.op, right.node),
                                       right.index, memo))

\* parse_comparison (484-507)
parse_comparison(ts, i, memo) ==
    Try(Parse("parse_sum", ts, i, memo), LAMBDA left :
        parse_comparison_more(ts, left.node, left.index, memo))

\* parse_not (478-482)
parse_not(ts, i, memo) ==
    IF match_name(ts, i, {"not"})
        THEN Try(Parse("parse_not", ts, i + 1, memo), LAMBDA value :
                 Parsed(UnaryOp(value.node, "not"), value.index))
    ELSE Parse("parse_comparison", ts, i, memo)

\* the loop of parse_and (472-474)
RECURSIVE parse_and_more(_, _, _, _)
parse_and_more(ts, left, i, memo) ==
    IF match_name(ts, i, {"and"})
        THEN Try(Parse("parse_not", ts, i + 1, memo), LAMBDA right :
                 parse_and_more(ts, BoolOp(left, "and", right.node), right.index, memo))
    ELSE Parsed(left, i)

\* parse_and (470-476)
parse_and(ts, i, memo) ==
    Try(Parse("parse_not", ts, i, memo), LAMBDA left :
        parse_and_more(ts, left.node, left.index, memo))

\* the loop of parse_or (464-466)
RECURSIVE parse_or_more(_, _, _, _)
parse_or_more(ts, left, i, memo) ==
    IF match_name(ts, i, {"or"})
        THEN Try(Parse("parse_and", ts, i + 1, memo), LAMBDA right :
                 parse_or_more(ts, BoolOp(left, "or", right.node), right.index, memo))
    ELSE Parsed(left, i)

\* parse_or (462-468)
parse_or(ts, i, memo) ==
    Try(Parse("parse_and", ts, i, memo), LAMBDA left :
        parse_or_more(ts, left.node, left.index, memo))

\* parse_expression (458-460)
parse_expression(ts, i, memo) == Parse("parse_or", ts, i, memo)

\* the loop of parse_expressions (451-453)
RECURSIVE parse_expressions_more(_, _, _, _)
parse_expressions_more(ts, expressions, i, memo) ==
    IF match_op(ts, i, {","})
        THEN Try(Parse("parse_expression", ts, i + 1, memo), LAMBDA expression :
                 parse_expressions_more(ts, Append(expressions, expression.node),
                                        expression.index, memo))
    ELSE Parsed(expressions, i)

\* parse_expressions (449-456)
parse_expressions(ts, i, memo) ==
    Try(Parse("parse_expression", ts, i, memo), LAMBDA expression :
        parse_expressions_more(ts, <<expression.node>>, expression.index, memo))

(***************************************************************************)
(* Statements (parser.py 187-447).  A loop of the parser that makes a pass *)
(* without moving the cursor and without leaving never ends: "Hang".       *)
(***************************************************************************)
\* the peek() of parse_import and parse_importfrom: the line is over
AtLineEnd(ts, i) == Parser_peek(ts, i).token_type \in {"NEWLINE", "EOF"}

\* the loop of parse_import (322-347); module is the name read last.  An
\* alias without asname has asname None, "" here
RECURSIVE import_loop(_, _, _, _)
import_loop(ts, i, names, module) ==
    IF match_op(ts, i, {","})
        THEN Try(expect_name(ts, i + 1), LAMBDA n :
                 import_loop(ts, n.index, Append(names, alias(module, "")), n.node))
    ELSE IF match_name(ts, i, {"as"})
        THEN Try(expect_name(ts, i + 1), LAMBDA n :
                 IF AtLineEnd(ts, n.index)
                     THEN Parsed(Import(Append(names, alias(module, n.node))), n.index)
                 ELSE IF match_op(ts, n.index, {","})
                     THEN Try(expect_name(ts, n.index + 1), LAMBDA m :
                              import_loop(ts, m.index, Append(names, alias(module, n.node)),
                                          m.node))
                 ELSE import_loop(ts, n.index, Append(names, alias(module, n.node)), module))
    ELSE IF match_op(ts, i, {"."})
        THEN Try(expect_name(ts, i + 1), LAMBDA n :
                 import_loop(ts, n.index, names, module \o "." \o n.node))
    ELSE IF AtLineEnd(ts, i) THEN Parsed(Import(Append(names, alias(module, ""))), i)
    ELSE Failed("Hang", 0, i)

\* parse_import (316-349), the cursor after the keyword
parse_import(ts, i) ==
    Try(expect_name(ts, i), LAMBDA n : import_loop(ts, n.index, <<>>, n.node))

\* the dotted module name of parse_importfrom (358-360)
RECURSIVE dotted_name(_, _, _)
dotted_name(ts, i, module_name) ==
    IF match_op(ts, i, {"."})
        THEN Try(expect_name(ts, i + 1), LAMBDA n :
                 dotted_name(ts, n.index, module_name \o "." \o n.node))
    ELSE Parsed(module_name, i)

\* the three steps of one pass of the loop of parse_importfrom (376-394):
\* `, name`, `as alias` with the `,  name` that may follow, and the end of
\* the line; s is [names, name, index] and done tells that the loop is left
importfrom_comma(ts, s) ==
    IF match_op(ts, s.index, {","})
        THEN Try(expect_name(ts, s.index + 1), LAMBDA n :
                 Parsed([names |-> Append(s.names, alias(s.name, "")), name |-> n.node,
                         done |-> FALSE], n.index))
    ELSE Parsed([names |-> s.names, name |-> s.name, done |-> FALSE], s.index)
importfrom_as(ts, s, i) ==
    IF match_name(ts, i, {"as"})
        THEN Try(expect_name(ts, i + 1), LAMBDA n :
                 IF AtLineEnd(ts, n.index)
                     THEN Parsed([names |-> Append(s.names, alias(s.name, n.node)),
                                  name |-> s.name, done |-> TRUE], n.index)
                 ELSE IF match_op(ts, n.index, {","})
                     THEN Try(expect_name(ts, n.index + 1), LAMBDA m :
                              Parsed([names |-> Append(s.names, alias(s.name, n.node)),
                                      name |-> m.node, done |-> FALSE], m.index))
                 ELSE Parsed([names |-> Append(s.names, alias(s.name, n.node)),
                              name |-> s.name, done |-> FALSE], n.index))
    ELSE Parsed(s, i)

RECURSIVE importfrom_loop(_, _, _, _, _)
importfrom_loop(ts, i, module_name, names, name) ==
    Try(importfrom_comma(ts, [names |-> names, name |-> name, index |-> i]), LAMBDA a :
    Try(importfrom_as(ts, a.node, a.index), LAMBDA b :
        IF b.node.done THEN Parsed(ImportFrom(module_name, b.node.names), b.index)
        ELSE IF AtLineEnd(ts, b.index)
            THEN Parsed(ImportFrom(module_name, Append(b.node.names, alias(b.node.name, ""))),
                        b.index)
        ELSE IF b.index = i THEN Failed("Hang", 0, i)
        ELSE importfrom_loop(ts, b.index, module_name, b.node.names, b.node.name)))

\* parse_importfrom (351-396), the cursor after the keyword
parse_importfrom(ts, i) ==
    Try(expect_name(ts, i), LAMBDA n :
    Try(dotted_name(ts, n.index, n.node), LAMBDA module :
        IF ~match_name(ts, module.index, {"import"})
            THEN Failed("ParseError", module.index, module.index)
        ELSE IF match_op(ts, module.index + 1, {"*"})
            THEN Parsed(ImportFrom(module.node, <<alias("*", "")>>), module.index + 2)
        ELSE Try(expect_name(ts, module.index + 1), LAMBDA name :
                 IF AtLineEnd(ts, name.index)
                     THEN Parsed(ImportFrom(module.node, <<alias(name.node, "")>>), name.index)
                 ELSE importfrom_loop(ts, name.index, module.node, <<>>, name.node))))

\* assert_expressions_are_targets (668-672)
expressions_are_targets(expressions) ==
    \A k \in 1..Len(expressions) : expressions[k].type \in {"Name", "Subscript"}

AugOps == {"+=", "-=", "*=", "@=", "/=", "%=", "&=", "|=", "^=", "**="}

\* the loop of parse_assign_or_exprstmt (435-443) and what follows it
RECURSIVE assign_loop(_, _, _, _, _)
assign_loop(ts, i, assign_targets, expressions, memo) ==
    IF match_op(ts, i, {"="})
        THEN IF ~expressions_are_targets(expressions) THEN Failed("ParseError", i + 1, i + 1)
             ELSE IF Len(expressions) # 1 THEN Failed("AssertionError", 0, i + 1)
             ELSE Try(Parse("parse_expressions", ts, i + 1, memo), LAMBDA more :
                      assign_loop(ts, more.index, Append(assign_targets, expressions[1]),
                                  more.node, memo))
    ELSE IF Len(expressions) # 1 THEN Failed("AssertionError", 0, i)
    ELSE Parsed(Assign(assign_targets, expressions[1]), i)

\* parse_assign_or_exprstmt (398-447)
parse_assign_or_exprstmt(ts, i, memo) ==
    Try(Parse("parse_expressions", ts, i, memo), LAMBDA expressions :
        LET j == expressions.index
            next_token == Parser_peek(ts, j)
        IN  IF next_token.token_type # "OP"
                THEN Parsed(ExprStmt(IF Len(expressions.node) = 1 THEN expressions.node[1]
                                     ELSE TupleNode(expressions.node)), j)
            ELSE IF match_op(ts, j, AugOps)
                THEN IF ~expressions_are_targets(expressions.node)
                         THEN Failed("ParseError", j + 1, j + 1)
                     ELSE IF Len(expressions.node) # 1 THEN Failed("ParseError", j + 1, j + 1)
                     ELSE Try(Parse("parse_expression", ts, j + 1, memo), LAMBDA value :
                              Parsed(AugAssign(expressions.node[1], next_token.string,
                                               value.node), value.index))
            ELSE IF next_token.string # "=" THEN Failed("ParseError", j, j)
            ELSE assign_loop(ts, j, <<>>, expressions.node, memo))

\* the chain of parse_single_line_statement that starts at `continue`
\* (286-310); the `else` at its end is taken after `pass` and `break` too
single_line_chain(ts, i, memo) ==
    IF match_name(ts, i, {"continue"}) THEN Parsed(Continue, i + 1)
    ELSE IF match_name(ts, i, {"import"}) THEN Parse("parse_import", ts, i + 1, memo)
    ELSE IF match_name(ts, i, {"from"}) THEN Parse("parse_importfrom", ts, i + 1, memo)
    ELSE IF match_name(ts, i, {"return"})
        THEN Try(Parse("parse_expressions", ts, i + 1, memo), LAMBDA return_values :
                 IF Len(return_values.node) # 1
                     THEN Failed("AssertionError", 0, return_values.index)
                 ELSE Parsed(Return(return_values.node[1]), return_values.index))
    ELSE Parse("parse_assign_or_exprstmt", ts, i, memo)

\* parse_single_line_statement (277-314): `pass` and `break` are tested by
\* an `if` of their own (280-284) before the chain
parse_single_line_statement(ts, i, memo) ==
    LET i1 == IF match_name(ts, i, {"pass"}) THEN i + 1 ELSE i
        i2 == IF match_name(ts, i1, {"break"}) THEN i1 + 1 ELSE i1
    IN  Try(Parse("single_line_chain", ts, i2, memo), LAMBDA node :
        Try(expect(ts, node.index, {"NEWLINE", "EOF"}), LAMBDA e :
            Parsed(node.node, e.index)))

\* the loop of parse_block (268-273)
RECURSIVE block_loop(_, _, _, _)
block_loop(ts, i, b, memo) ==
    Try(Parse("parse_statement", ts, i, memo), LAMBDA statement :
        IF match_type(ts, statement.index, {"DEDENT", "EOF"})
            THEN Parsed(Append(b, statement.node), statement.index + 1)
        ELSE block_loop(ts, statement.index, Append(b, statement.node), memo))

\* parse_block (264-275)
parse_block(ts, i, memo) ==
    Try(expect(ts, i, {"NEWLINE"}), LAMBDA n :
    Try(expect(ts, n.index, {"INDENT"}), LAMBDA d : block_loop(ts, d.index, <<>>, memo)))

\* the parameters after the first of parse_function_def (224-229)
RECURSIVE params_loop(_, _, _)
params_loop(ts, i, params) ==
    IF match_op(ts, i, {")"}) THEN Parsed(params, i + 1)
    ELSE Try(expect_op(ts, i, ","), LAMBDA c :
         Try(expect_name(ts, c.index), LAMBDA n :
             params_loop(ts, n.index, Append(params, n.node))))

\* the parameter list of parse_function_def (215-229), the cursor after '('
parse_params(ts, i) ==
    IF match_op(ts, i, {")"}) THEN Parsed(<<>>, i + 1)
    ELSE Try(expect_name(ts, i), LAMBDA first : params_loop(ts, first.index, <<first.node>>))

\* parse_function_def (210-234)
parse_function_def(ts, i, memo) ==
    Try(expect_name(ts, i), LAMBDA function_name :
    Try(expect_op(ts, function_name.index, "("), LAMBDA open :
    Try(Parse("parse_params", ts, open.index, memo), LAMBDA params :
    Try(expect_op(ts, params.index, ":"), LAMBDA colon :
    Try(Parse("parse_block", ts, colon.index, memo), LAMBDA b :
        Parsed(FunctionDef(function_name.node, params.node, b.node, <<>>), b.index))))))

\* `else: block` after the body of an if or a while (245-247, 258-260)
parse_else(ts, i, memo) ==
    IF ~match_name(ts, i, {"else"}) THEN Parsed(<<>>, i)
    ELSE Try(expect_op(ts, i + 1, ":"), LAMBDA colon : Parse("parse_block", ts, colon.index, memo))

\* parse_if (236-249)
parse_if(ts, i, memo) ==
    Try(Parse("parse_expression", ts, i, memo), LAMBDA condition :
    Try(expect_op(ts, condition.index, ":"), LAMBDA colon :
    Try(Parse("parse_block", ts, colon.index, memo), LAMBDA b :
    Try(IF match_name(ts, b.index, {"elif"})
            THEN Try(Parse("parse_if", ts, b.index + 1, memo), LAMBDA elif :
                     Parsed(<<elif.node>>, elif.index))
        ELSE Parse("parse_else", ts, b.index, memo),
        LAMBDA orelse :
            Parsed(If(condition.node, b.node, orelse.node), orelse.index)))))

\* parse_while (251-262)
parse_while(ts, i, memo) ==
    Try(Parse("parse_expression", ts, i, memo), LAMBDA condition :
    Try(expect_op(ts, condition.index, ":"), LAMBDA colon :
    Try(Parse("parse_block", ts, colon.index, memo), LAMBDA b :
    Try(Parse("parse_else", ts, b.index, memo), LAMBDA orelse :
        Parsed(While(condition.node, b.node, orelse.node), orelse.index)))))

\* parse_multiline_statement (196-208), the cursor after the keyword
parse_multiline_statement(ts, i, memo) ==
    LET keyword == Parser_current(ts, i).string
    IN  CASE keyword = "def" -> Parse("parse_function_def", ts, i, memo)
          [] keyword = "if" -> Parse("parse_if", ts, i, memo)
          [] keyword = "while" -> Parse("parse_while", ts, i, memo)
          [] OTHER -> Failed("NotImplementedError", 0, i)

\* the empty lines before a statement (189-190)
RECURSIVE skip_newlines(_, _)
skip_newlines(ts, i) == IF match_type(ts, i, {"NEWLINE"}) THEN skip_newlines(ts, i + 1) ELSE i

\* parse_statement (187-194)
parse_statement(ts, i, memo) ==
    LET j == skip_newlines(ts, i)
    IN  IF match_name(ts, j, {"def", "if", "for", "while"})
            THEN Parse("parse_multiline_statement", ts, j + 1, memo)
        ELSE Parse("parse_single_line_statement", ts, j, memo)

\* the methods of the Parser by name
\* the methods memo keeps, in the order they are worked out at a cursor: a
\* method calls at its own cursor only methods of the sets before its own
MemoStages ==
    <<{"parse_unary"}, {"parse_not"}, {"parse_expression"}, {"parse_expressions"},
      {"parse_statement", "parse_block", "parse_if"}>>
Memo_has(memo, i, method) == \E entry \in memo : entry.at = i /\ entry.method = method
Memo_get(memo, i, method) ==
    (CHOOSE entry \in memo : entry.at = i /\ entry.method = method).result

Parse(method, ts, i, memo) ==
    IF Memo_has(memo, i, method) THEN Memo_get(memo, i, method)
    ELSE
        CASE method = "parse_expression" -> parse_expression(ts, i, memo)
          [] method = "parse_expressions" -> parse_expressions(ts, i, memo)
          [] method = "parse_unary" -> parse_unary(ts, i, memo)
          [] method = "parse_dict_item" -> parse_dict_item(ts, i, memo)
          [] method = "parse_literal" -> parse_literal(ts, i, memo)
          [] method = "parse_until_bracket" -> parse_until_bracket(ts, i, memo)
          [] method = "parse_subscript_keys" -> parse_subscript_keys(ts, i, memo)
          [] method = "parse_primary" -> parse_primary(ts, i, memo)
          [] method = "parse_power" -> parse_power(ts, i, memo)
          [] method = "parse_factor" -> parse_factor(ts, i, memo)
          [] method = "parse_sum" -> parse_sum(ts, i, memo)
          [] method = "parse_comparison" -> parse_comparison(ts, i, memo)
          [] method = "parse_not" -> parse_not(ts, i, memo)
          [] method = "parse_and" -> parse_and(ts, i, memo)
          [] method = "parse_or" -> parse_or(ts, i, memo)
          [] method = "parse_import" -> parse_import(ts, i)
          [] method = "parse_importfrom" -> parse_importfrom(ts, i)
          [] method = "parse_assign_or_exprstmt" -> parse_assign_or_exprstmt(ts, i, memo)
          [] method = "single_line_chain" -> single_line_chain(ts, i, memo)
          [] method = "parse_single_line_statement" -> parse_single_line_statement(ts, i, memo)
          [] method = "parse_statement" -> parse_statement(ts, i, memo)
          [] method = "parse_block" -> parse_block(ts, i, memo)
          [] method = "parse_params" -> parse_params(ts, i)
          [] method = "parse_function_def" -> parse_function_def(ts, i, memo)
          [] method = "parse_else" -> parse_else(ts, i, memo)
          [] method = "parse_if" -> parse_if(ts, i, memo)
          [] method = "parse_while" -> parse_while(ts, i, memo)
          [] method = "parse_multiline_statement" -> parse_multiline_statement(ts, i, memo)

\* memo with the results at cursor i of the sets of MemoStages from k on
RECURSIVE MemoStage(_, _, _, _)
MemoStage(ts, i, k, memo) ==
    IF k > Len(MemoStages) THEN memo
    ELSE Bind(memo \cup {[at |-> i, method |-> method, result |-> Parse(method, ts, i, memo)] :
                         method \in MemoStages[k]},
              LAMBDA more : MemoStage(ts, i, k + 1, more))
\* memo for the cursors from i on: that of the cursors after i, then the
\* results at i worked out with it
RECURSIVE Memo(_, _)
Memo(ts, i) ==
    IF i > Len(ts) THEN {}
    ELSE Bind(Memo(ts, i + 1), LAMBDA later : MemoStage(ts, i, 1, later))
\* parse_statement called by Parser.parse (179-185) at cursor i
ParseAt(ts, i) == Memo_get(Memo(ts, i), i, "parse_statement")

\* Parser.__init__ (113-115) with what Parser.parse (179-185) keeps: the
\* statements parsed so far and the exception that ended it
NewParser == [index |-> 0, statements |-> <<>>, err |-> "none", at |-> 0]

(***************************************************************************)
(* Running a program (interpreter.py 853-858, 446-448): interpret visits   *)
(* the statements of the module one after the other, and an exception that *)
(* leaves a statement ends the run.  `body` holds the statements visited   *)
(* so far; each step visits one more statement of the pool at hand.        *)
(***************************************************************************)
vars == <<source, tokens, start, next, indents, bracket_level, tok_error, interp, body, parser>>

\* the tokenizer of a run that interprets a given tree has nothing to scan
InterpInit ==
    /\ interp = NewInterpreter
    /\ body = <<>>
    /\ source = <<>>
    /\ tokens = <<>>
    /\ start = 0
    /\ next = 0
    /\ indents = <<<<>>>>
    /\ bracket_level = 0
    /\ tok_error = "none"
    /\ parser = NewParser

\* one pass of `for stmt in node.body: self.visit(stmt)` in visit_Module
Exec(stmt, bound) ==
    /\ interp.exc = "none"
    /\ Len(body) < bound
    /\ interp' = visit(stmt, interp)
    /\ body' = Append(body, stmt)
    /\ UNCHANGED <<tok_vars, parser>>

\* Tokenizer.__init__ (tokenizer.py 41-48) on a source of the bounded set;
\* a run that only tokenizes leaves the interpreter as it was made
TokInit ==
    /\ source \in Sources
    /\ tokens = <<>>
    /\ start = 0
    /\ next = 0
    /\ indents = <<<<>>>>
    /\ bracket_level = 0
    /\ tok_error = "none"
    /\ interp = NewInterpreter
    /\ body = <<>>
    /\ parser = NewParser

SpecTok == TokInit /\ [][TokNext]_vars

\* history: the events of one kind, as the set of their positions
Events(kind) == {i \in 1..Len(interp.log) : interp.log[i].ev = kind}
\* the "call" event that an "exit" event at position i answers
CallOf(i) ==
    CHOOSE j \in Events("call") :
        /\ j < i
        /\ interp.log[j].depth = interp.log[i].depth
        /\ \A k \in Events("call") :
              (k < i /\ interp.log[k].depth = interp.log[i].depth) => k <= j
UserExits == {i \in Events("exit") : interp.log[i].function.kind = "UserFunction"}

(***************************************************************************)
(* Name resolution in closures.  The statements of the programs:           *)
(*     x = 5                                                               *)
(*     def bar():                  def f():          def g():              *)
(*         x = 10                      return x          x = 7             *)
(*         def baz():                                    return foo()      *)
(*             def foo():                                                  *)
(*                 return x                          def h():              *)
(*             return foo                                x = 7             *)
(*         return baz                                    return f()        *)
(*     foo = bar()()                                                       *)
(*     r = g()                                                             *)
(*     r = h()                                                             *)
(***************************************************************************)
ScopePool ==
    { Assign(<<Name("x")>>, Constant(IntV(5))),
      FunctionDef("bar", <<>>,
          <<Assign(<<Name("x")>>, Constant(IntV(10))),
            FunctionDef("baz", <<>>,
                <<FunctionDef("foo", <<>>, <<Return(Name("x"))>>, <<>>),
                  Return(Name("foo"))>>, <<>>),
            Return(Name("baz"))>>, <<>>),
      FunctionDef("f", <<>>, <<Return(Name("x"))>>, <<>>),
      FunctionDef("g", <<>>,
          <<Assign(<<Name("x")>>, Constant(IntV(7))),
            Return(Call(Name("foo"), <<>>))>>, <<>>),
      FunctionDef("h", <<>>,
          <<Assign(<<Name("x")>>, Constant(IntV(7))),
            Return(Call(Name("f"), <<>>))>>, <<>>),
      Assign(<<Name("foo")>>, Call(Call(Name("bar"), <<>>), <<>>)),
      Assign(<<Name("r")>>, Call(Name("g"), <<>>)),
      Assign(<<Name("r")>>, Call(Name("h"), <<>>)) }

ScopeDef == \E s \in ScopePool : s.type = "FunctionDef" /\ Exec(s, MaxStmts)
ScopeAssign == \E s \in ScopePool : s.type = "Assign" /\ Exec(s, MaxStmts)
ScopeNext == ScopeDef \/ ScopeAssign
SpecScope == InterpInit /\ [][ScopeNext]_vars

\* the scopes from sid up the parent links, nearest first
RECURSIVE Chain(_)
Chain(sid) == IF sid = 0 THEN <<>> ELSE <<sid>> \o Chain(interp.scopes[sid].parent)

\* the first scope of order that is in the set bound, 0 when there is none
RECURSIVE FirstBound(_, _)
FirstBound(order, bound) ==
    IF Len(order) = 0 THEN 0
    ELSE IF Head(order) \in bound THEN Head(order)
    ELSE FirstBound(Tail(order), bound)

\* the call whose scope the name of a lookup event is looked up from
FrameOf(i) ==
    {j \in Events("frame") : interp.log[j].scope = interp.log[i].scope}

\* C1: a name looked up in a call of a user function F resolves to the
\* nearest binding among the call's own scope, the scope F was defined in
\* and that scope's ancestors, and then F's defining globals; it is an
\* error when none of these binds the name, whatever the caller's scope
\* binds.
C1_ResolvesInDefiningScope ==
    \A i \in Events("lookup") : \A j \in FrameOf(i) :
        LET F == interp.log[j].function
        IN  interp.log[i].found =
                FirstBound(<<interp.log[i].scope>> \o Chain(F.parent_scope)
                               \o <<F.current_globals>>,
                           interp.log[i].bound)

\* a function two definitions deep, called from a function whose scope binds
\* the name as well, found the name in the scope it was defined in
C1_Witness ==
    \E i \in Events("lookup") : \E j \in FrameOf(i) :
        LET e == interp.log[i]
            F == interp.log[j].function
            caller == interp.log[j].caller
        IN  /\ caller \in e.bound
            /\ caller # 1
            /\ e.found \notin {0, 1, e.scope, caller}
            /\ e.found = interp.scopes[F.parent_scope].parent

(***************************************************************************)
(* Calls that end in every way.  The statements of the programs:           *)
(*     def ok():        def bad():                def brk():   def cnt():  *)
(*         pass             return undefined          break        continue*)
(*     from m import nest                                                  *)
(*     nest(ok)    nest(bad)    nest(brk)    nest(cnt)                     *)
(***************************************************************************)
FrameFunctions == {"ok", "bad", "brk", "cnt"}
FramePool ==
    { FunctionDef("ok", <<>>, <<Pass>>, <<>>),
      FunctionDef("bad", <<>>, <<Return(Name("undefined"))>>, <<>>),
      FunctionDef("brk", <<>>, <<Break>>, <<>>),
      FunctionDef("cnt", <<>>, <<Continue>>, <<>>),
      ImportFrom("m", <<alias("nest", "")>>) }
        \cup { ExprStmt(Call(Name("nest"), <<Name(n)>>)) : n \in FrameFunctions }

FrameDef == \E s \in FramePool : s.type = "FunctionDef" /\ Exec(s, MaxStmts)
FrameImport == \E s \in FramePool : s.type = "ImportFrom" /\ Exec(s, MaxStmts)
FrameCall == \E s \in FramePool : s.type = "ExprStmt" /\ Exec(s, MaxStmts)
FrameNext == FrameDef \/ FrameImport \/ FrameCall
SpecFrame == InterpInit /\ [][FrameNext]_vars

\* C2: when a call of a user function is over, however it ended, the scope
\* and the globals cursor are the ones the call was made under; so between
\* the statements of the main program both are the main module's scope.
C2_CursorsRestored ==
    /\ \A i \in UserExits :
          /\ interp.log[i].scope = interp.log[CallOf(i)].scope
          /\ interp.log[i].globals = interp.log[CallOf(i)].globals
    /\ interp.scope = 1
    /\ interp.globals = 1

\* a call made inside another call, under cursors that are neither the main
\* module's nor the callee's, was left by a break, and the call around it too
C2_Witness ==
    \E i \in UserExits : \E o \in UserExits :
        /\ interp.log[i].exc = "Break"
        /\ interp.log[i].depth = 1
        /\ interp.log[CallOf(i)].scope # 1
        /\ interp.log[CallOf(i)].globals # 1
        /\ interp.log[i].function.current_globals # interp.log[i].globals
        /\ interp.log[o].exc = "Break"
        /\ interp.log[o].depth = 0
        /\ o > i

(***************************************************************************)
(* Deques.  The statements of the programs:                                *)
(*     d = deque()    d.append(1)    d.append(2)    r = d.popleft()        *)
(*     n = len(d)                                                          *)
(***************************************************************************)
DequePool ==
    { Assign(<<Name("d")>>, Call(Name("deque"), <<>>)),
      ExprStmt(Call(Attribute(Name("d"), "append"), <<Constant(IntV(1))>>)),
      ExprStmt(Call(Attribute(Name("d"), "append"), <<Constant(IntV(2))>>)),
      Assign(<<Name("r")>>, Call(Attribute(Name("d"), "popleft"), <<>>)),
      Assign(<<Name("n")>>, Call(Name("len"), <<Name("d")>>)) }

DequeNew == \E s \in DequePool : s.value.function = Name("deque") /\ Exec(s, MaxDequeStmts)
DequeAppend ==
    \E s \in DequePool : s.value.function = Attribute(Name("d"), "append")
                            /\ Exec(s, MaxDequeStmts)
DequePopLeft ==
    \E s \in DequePool : s.value.function = Attribute(Name("d"), "popleft")
                            /\ Exec(s, MaxDequeStmts)
DequeLen == \E s \in DequePool : s.value.function = Name("len") /\ Exec(s, MaxDequeStmts)
DequeNext == DequeNew \/ DequeAppend \/ DequePopLeft \/ DequeLen
SpecDeque == InterpInit /\ [][DequeNext]_vars

\* the positions, in order, of the elements of a set of positions
RECURSIVE Sorted(_)
Sorted(S) ==
    IF S = {} THEN <<>>
    ELSE LET lo == CHOOSE x \in S : \A y \in S : x <= y
         IN  <<lo>> \o Sorted(S \ {lo})

\* the append calls on the deque ref, and the popleft calls on it that gave
\* an element, each in the order they were made
Appends(ref) ==
    Sorted({i \in Events("call") :
               /\ interp.log[i].function.kind = "Append"
               /\ interp.log[i].function.wrapper = DequeObj(ref)
               /\ interp.log[i + 1].exc = "none"})
PopLefts(ref) ==
    Sorted({i \in Events("exit") :
               /\ interp.log[i].function.kind = "PopLeft"
               /\ interp.log[i].function.wrapper = DequeObj(ref)
               /\ interp.log[i].exc = "none"})
LenCalls(ref) ==
    {i \in Events("call") :
        interp.log[i].function.kind = "Len" /\ interp.log[i].args = <<DequeObj(ref)>>}
Before(seq, i) == Cardinality({k \in 1..Len(seq) : seq[k] < i})

\* C5: the k-th popleft of a deque that gives an element gives the k-th
\* element appended to it, and it is made after that append; len of the
\* deque is the number of appends so far minus the number of poplefts that
\* gave an element; a popleft of a deque with nothing left gives no element.
C5_DequeFifo ==
    \A ref \in 1..Len(interp.heap) :
        /\ Len(PopLefts(ref)) <= Len(Appends(ref))
        /\ \A k \in 1..Len(PopLefts(ref)) :
              /\ interp.log[PopLefts(ref)[k]].val = interp.log[Appends(ref)[k]].args[1]
              /\ Appends(ref)[k] < PopLefts(ref)[k]
        /\ \A i \in LenCalls(ref) :
              /\ interp.log[i + 1].exc = "none"
              /\ interp.log[i + 1].val =
                    IntV(Before(Appends(ref), i) - Before(PopLefts(ref), i))
        /\ Len(interp.heap[ref]) = Len(Appends(ref)) - Len(PopLefts(ref))

\* 1 then 2 were appended, a popleft gave 1, a len in between gave 2 and
\* the deque holds one element
C5_Witness ==
    \E ref \in 1..Len(interp.heap) :
        /\ Len(Appends(ref)) = 2
        /\ Len(PopLefts(ref)) = 1
        /\ interp.log[Appends(ref)[1]].args = <<IntV(1)>>
        /\ interp.log[Appends(ref)[2]].args = <<IntV(2)>>
        /\ interp.log[PopLefts(ref)[1]].val = IntV(1)
        /\ \E i \in LenCalls(ref) :
              i < PopLefts(ref)[1] /\ interp.log[i + 1].val = IntV(2)
        /\ Len(interp.heap[ref]) = 1

(***************************************************************************)
(* Decorators.  The statements of the programs:                            *)
(*     def foo(func):       def ab5(func):              def k(func):       *)
(*         return func          def wrapper():              return 1       *)
(*                                  return func()                          *)
(*                              return wrapper                             *)
(*     @foo            @ab5            @foo                                *)
(*     @ab5            @foo            @k                                  *)
(*     def xyz():      def xyz():      @ab5                                *)
(*         pass            pass        def xyz():                          *)
(*                                         pass                            *)
(*     r = xyz()                                                           *)
(***************************************************************************)
Decorated(names) ==
    FunctionDef("xyz", <<>>, <<Pass>>, [i \in 1..Len(names) |-> Decorator(Name(names[i]))])
DecorPool ==
    { FunctionDef("foo", <<"func">>, <<Return(Name("func"))>>, <<>>),
      FunctionDef("ab5", <<"func">>,
          <<FunctionDef("wrapper", <<>>, <<Return(Call(Name("func"), <<>>))>>, <<>>),
            Return(Name("wrapper"))>>, <<>>),
      FunctionDef("k", <<"func">>, <<Return(Constant(IntV(1)))>>, <<>>),
      Decorated(<<"foo", "ab5">>),
      Decorated(<<"ab5", "foo">>),
      Decorated(<<"foo", "k", "ab5">>),
      Assign(<<Name("r")>>, Call(Name("xyz"), <<>>)) }

DecorDef ==
    \E s \in DecorPool : s.type = "FunctionDef" /\ s.decorators = <<>> /\ Exec(s, MaxStmts)
DecorDecorated ==
    \E s \in DecorPool : s.type = "FunctionDef" /\ s.decorators # <<>> /\ Exec(s, MaxStmts)
DecorCall == \E s \in DecorPool : s.type = "Assign" /\ Exec(s, MaxStmts)
DecorNext == DecorDef \/ DecorDecorated \/ DecorCall
SpecDecor == InterpInit /\ [][DecorNext]_vars

\* the "stmt" event of the FunctionDef that the "def" event at i ends
StmtOf(i) ==
    CHOOSE j \in Events("stmt") :
        /\ j < i
        /\ interp.log[j].type = "FunctionDef"
        /\ interp.log[j].depth = interp.log[i].depth
        /\ \A k \in Events("stmt") :
              (k < i /\ interp.log[k].type = "FunctionDef"
                     /\ interp.log[k].depth = interp.log[i].depth) => k <= j
\* the "exit" event that answers the "call" event at c
ExitOf(c) ==
    CHOOSE x \in Events("exit") :
        /\ x > c
        /\ interp.log[x].depth = interp.log[c].depth
        /\ \A y \in Events("exit") :
              (y > c /\ interp.log[y].depth = interp.log[c].depth) => x <= y
\* the calls that the FunctionDef ended at i made itself, in order
DecoratorCalls(i) ==
    Sorted({c \in Events("call") :
               StmtOf(i) < c /\ c < i /\ interp.log[c].depth = interp.log[i].depth})

\* C6: a FunctionDef with the decorators d1 .. dn calls exactly dn, .., d1
\* in this order; dn gets the UserFunction made from the definition, each
\* of the others gets what the call before it gave, and the function's
\* name is bound in the current scope to what the call of d1 gave.
C6_DecoratorsInnermostFirst ==
    \A i \in Events("def") :
        LET e == interp.log[i]
            n == Len(e.node.decorators)
            calls == DecoratorCalls(i)
        IN  /\ Len(calls) = n
            /\ e.function.kind = "UserFunction"
            /\ e.function.definition = e.node
            /\ \A k \in 1..n :
                  /\ interp.log[calls[k]].function.definition.name
                        = e.node.decorators[n + 1 - k].value.id
                  /\ interp.log[calls[k]].args =
                        <<IF k = 1 THEN e.function
                                   ELSE interp.log[ExitOf(calls[k - 1])].val>>
            /\ e.bound = IF n = 0 THEN e.function ELSE interp.log[ExitOf(calls[n])].val

\* three decorators were applied, the middle one got a function that is not
\* the one defined and gave something that is not a function, and that is
\* what the name is bound to
C6_Witness ==
    \E i \in Events("def") :
        LET e == interp.log[i]
            calls == DecoratorCalls(i)
        IN  /\ Len(e.node.decorators) = 3
            /\ Len(calls) = 3
            /\ interp.log[calls[1]].function.definition.name = "ab5"
            /\ interp.log[calls[2]].args # <<e.function>>
            /\ interp.log[calls[2]].args[1].kind = "UserFunction"
            /\ e.bound = IntV(1)

(***************************************************************************)
(* Boolean operators.  The statements of the programs:                     *)
(*     def t():              def f():                                      *)
(*         print("t")            print("f")                                *)
(*         return True           return False                              *)
(*     r = f() and t()    r = t() and f()    r = False and undefined       *)
(*     r = t() or f()     r = f() or t()                                   *)
(***************************************************************************)
BoolPool ==
    { FunctionDef("t", <<>>,
          <<ExprStmt(Call(Name("print"), <<Constant(StrV("t"))>>)),
            Return(Constant(BoolV(TRUE)))>>, <<>>),
      FunctionDef("f", <<>>,
          <<ExprStmt(Call(Name("print"), <<Constant(StrV("f"))>>)),
            Return(Constant(BoolV(FALSE)))>>, <<>>),
      Assign(<<Name("r")>>, BoolOp(Call(Name("f"), <<>>), "and", Call(Name("t"), <<>>))),
      Assign(<<Name("r")>>, BoolOp(Call(Name("t"), <<>>), "and", Call(Name("f"), <<>>))),
      Assign(<<Name("r")>>, BoolOp(Constant(BoolV(FALSE)), "and", Name("undefined"))),
      Assign(<<Name("r")>>, BoolOp(Call(Name("t"), <<>>), "or", Call(Name("f"), <<>>))),
      Assign(<<Name("r")>>, BoolOp(Call(Name("f"), <<>>), "or", Call(Name("t"), <<>>))) }

BoolDef == \E s \in BoolPool : s.type = "FunctionDef" /\ Exec(s, MaxStmts)
BoolAnd == \E s \in BoolPool : s.type = "Assign" /\ s.value.op = "and" /\ Exec(s, MaxStmts)
BoolOr == \E s \in BoolPool : s.type = "Assign" /\ s.value.op = "or" /\ Exec(s, MaxStmts)
BoolNext == BoolDef \/ BoolAnd \/ BoolOr
SpecBool == InterpInit /\ [][BoolNext]_vars

\* C7: the right operand of `and` is visited only when the left one is
\* truthy, and the right operand of `or` only when the left one is falsy.
C7_ShortCircuit ==
    \A i \in Events("bool_right") :
        /\ interp.log[i].op = "and" => is_truthy(interp.log[i].left)
        /\ interp.log[i].op = "or" => ~is_truthy(interp.log[i].left)

(***************************************************************************)
(* Loops.  The statements of the programs, with S one of break, continue:  *)
(*     i = 0                                                               *)
(*     while i < 3:            for x in [1, 2, 3]:     for x in [1, 2]:    *)
(*         i = i + 1               if x == 2:              i = 0           *)
(*         if i == 2:                  S                   while i < 2:    *)
(*             S                   n = x                       i = i + 1   *)
(*         n = i                                               continue    *)
(*                                                             n = 1       *)
(*                                                         for y in [1, 2]:*)
(*                                                             break       *)
(*                                                             n = 2       *)
(*                                                         m = x           *)
(***************************************************************************)
Num(i) == Constant(IntV(i))
Incr(name) == Assign(<<Name(name)>>, BinOp(Name(name), "+", Num(1)))
WhileWith(S) ==
    While(Compare(Name("i"), "<", Num(3)),
          <<Incr("i"),
            If(Compare(Name("i"), "==", Num(2)), <<S>>, <<>>),
            Assign(<<Name("n")>>, Name("i"))>>, <<>>)
ForWith(S) ==
    For(<<Name("x")>>, <<ListNode(<<Num(1), Num(2), Num(3)>>)>>,
        <<If(Compare(Name("x"), "==", Num(2)), <<S>>, <<>>),
          Assign(<<Name("n")>>, Name("x"))>>, <<>>)
Nested ==
    For(<<Name("x")>>, <<ListNode(<<Num(1), Num(2)>>)>>,
        <<Assign(<<Name("i")>>, Num(0)),
          While(Compare(Name("i"), "<", Num(2)),
                <<Incr("i"), Continue, Assign(<<Name("n")>>, Num(1))>>, <<>>),
          For(<<Name("y")>>, <<ListNode(<<Num(1), Num(2)>>)>>,
              <<Break, Assign(<<Name("n")>>, Num(2))>>, <<>>),
          Assign(<<Name("m")>>, Name("x"))>>, <<>>)
LoopPool ==
    { Assign(<<Name("i")>>, Num(0)),
      WhileWith(Break), WhileWith(Continue), ForWith(Break), ForWith(Continue), Nested }

LoopAssign == \E s \in LoopPool : s.type = "Assign" /\ Exec(s, MaxStmts)
LoopWhile == \E s \in LoopPool : s.type = "While" /\ Exec(s, MaxStmts)
LoopFor == \E s \in LoopPool : s.type = "For" /\ Exec(s, MaxStmts)
LoopNext == LoopAssign \/ LoopWhile \/ LoopFor
SpecLoop == InterpInit /\ [][LoopNext]_vars

\* the events that are about a loop
LoopEvents == {"stmt", "raise", "iter", "cond", "loop", "loop_exit", "loop_abort"}
\* the break or continue statements run in a loop of the same call
Signals(exc) ==
    {k \in Events("raise") : interp.log[k].exc = exc /\ interp.log[k].loop # 0}

\* C8: straight after a break in a loop the loop is over, and nothing of
\* this loop runs afterwards: no body statement, no condition, no
\* iteration.  Straight after a continue a while loop evaluates its
\* condition again, and a for loop takes its next element or, with none
\* left, is over.
C8_BreakContinue ==
    /\ \A k \in Signals("Break") :
          LET L == interp.log[k].loop
          IN  /\ k < Len(interp.log)
              /\ interp.log[k + 1] = [ev |-> "loop_exit", loop |-> L, why |-> "break"]
              /\ \A m \in (k + 2)..Len(interp.log) :
                    interp.log[m].ev \in LoopEvents => interp.log[m].loop # L
    /\ \A k \in Signals("Continue") :
          LET L == interp.log[k].loop
          IN  /\ k < Len(interp.log)
              /\ IF interp.log[L].kind = "While"
                     THEN interp.log[k + 1] = [ev |-> "cond", loop |-> L]
                     ELSE interp.log[k + 1] \in
                              { [ev |-> "iter", loop |-> L],
                                [ev |-> "loop_exit", loop |-> L, why |-> "exhausted"] }

\* a break ended a for loop inside another loop that went on to its next
\* iteration, a continue in a while loop was followed by a pass over the
\* body, and a continue in a for loop by the next element
C8_Witness ==
    /\ \E k \in Signals("Break") : \E m \in Events("iter") :
          /\ interp.log[interp.log[k].loop].kind = "For"
          /\ m > k
          /\ interp.log[m].loop < interp.log[k].loop
    /\ \E k \in Signals("Continue") :
          /\ interp.log[interp.log[k].loop].kind = "While"
          /\ \E m \in (k + 2)..Len(interp.log) :
                /\ interp.log[m] = [ev |-> "iter", loop |-> interp.log[k].loop]
                /\ \A j \in (k + 2)..(m - 1) : interp.log[j].ev \in {"lookup", "test"}
    /\ \E k \in Signals("Continue") :
          /\ interp.log[interp.log[k].loop].kind = "For"
          /\ interp.log[k + 1].ev = "iter"

(***************************************************************************)
(* Return.  The statements of the programs:                                *)
(*     def q():          def p():      def w():             def c(a):      *)
(*         return 1          pass          while True:          if a:      *)
(*         z = 2                               return 3             return 1*)
(*                                         return 4             z = 2      *)
(*     def o():                                                            *)
(*         z = q()                                                         *)
(*         return p()                                                      *)
(*     r = q()   r = p()   r = w()   r = c(True)   r = c(False)   r = o()  *)
(***************************************************************************)
CallStmt(name, args) == Assign(<<Name("r")>>, Call(Name(name), args))
ReturnPool ==
    { FunctionDef("q", <<>>, <<Return(Num(1)), Assign(<<Name("z")>>, Num(2))>>, <<>>),
      FunctionDef("p", <<>>, <<Pass>>, <<>>),
      FunctionDef("w", <<>>,
          <<While(Constant(BoolV(TRUE)), <<Return(Num(3))>>, <<>>), Return(Num(4))>>, <<>>),
      FunctionDef("c", <<"a">>,
          <<If(Name("a"), <<Return(Num(1))>>, <<>>), Assign(<<Name("z")>>, Num(2))>>, <<>>),
      FunctionDef("o", <<>>,
          <<Assign(<<Name("z")>>, Call(Name("q"), <<>>)),
            Return(Call(Name("p"), <<>>))>>, <<>>),
      CallStmt("q", <<>>), CallStmt("p", <<>>), CallStmt("w", <<>>), CallStmt("o", <<>>),
      CallStmt("c", <<Constant(BoolV(TRUE))>>), CallStmt("c", <<Constant(BoolV(FALSE))>>) }

ReturnDef == \E s \in ReturnPool : s.type = "FunctionDef" /\ Exec(s, MaxStmts)
ReturnCall == \E s \in ReturnPool : s.type = "Assign" /\ Exec(s, MaxStmts)
ReturnNext == ReturnDef \/ ReturnCall
SpecReturn == InterpInit /\ [][ReturnNext]_vars

\* the return statements that the body of the call ended at i ran itself
ReturnsOf(i) ==
    {k \in Events("raise") :
        /\ CallOf(i) < k
        /\ k < i
        /\ interp.log[k].exc = "Return"
        /\ interp.log[k].depth = interp.log[i].depth + 1}

\* C9: a call of a user function whose body ran a return statement ran no
\* statement after it and gives the value returned; a call whose body came
\* to its end without one gives None.
C9_ReturnEndsCall ==
    \A i \in UserExits :
        /\ \A k \in ReturnsOf(i) :
              /\ interp.log[i].exc = "none"
              /\ interp.log[i].val = interp.log[k].val
              /\ \A m \in Events("stmt") : ~(k < m /\ m < i)
        /\ (ReturnsOf(i) = {} /\ interp.log[i].exc = "none") => interp.log[i].val = None

\* a return inside a loop ended one call with its value, before the
\* statement after the loop; another call came to the end of its body and
\* gave None
C9_Witness ==
    /\ \E i \in UserExits :
          /\ interp.log[i].function.definition.name = "w"
          /\ interp.log[i].val = IntV(3)
          /\ ReturnsOf(i) # {}
    /\ \E i \in UserExits :
          /\ interp.log[i].function.definition.name = "c"
          /\ ReturnsOf(i) = {}
          /\ interp.log[i].val = None
    /\ Scope_get(interp, 1, "r") \in {None, IntV(3)}

(***************************************************************************)
(* Imports.  The statements of the programs:                               *)
(*     import a    import b    import a as c    from a import x            *)
(*     from b import *                                                     *)
(***************************************************************************)
ImportPool ==
    { Import(<<alias("a", "")>>),
      Import(<<alias("b", "")>>),
      Import(<<alias("a", "c")>>),
      ImportFrom("a", <<alias("x", "")>>),
      ImportFrom("b", <<alias("*", "")>>) }

ImportModule == \E s \in ImportPool : s.type = "Import" /\ Exec(s, MaxStmts)
ImportFromModule == \E s \in ImportPool : s.type = "ImportFrom" /\ Exec(s, MaxStmts)
ImportNext == ImportModule \/ ImportFromModule
SpecImport == InterpInit /\ [][ImportNext]_vars

\* how often the statements of the file name have been executed
Executions(name) == Cardinality({i \in Events("exec") : interp.log[i].path = name})

\* C10: in one run the statements of a module file are executed at most
\* once, however many import statements name the module.
C10_ExecutedAtMostOnce == \A name \in DOMAIN Files : Executions(name) <= 1

(***************************************************************************)
(* Errors at the top level (interpreter.py 853-858).  The statements of    *)
(* the programs:                                                           *)
(*     x = 1    y = 2    print(x)                                          *)
(*     z        len()    1 + "a"    break    continue    return 1          *)
(***************************************************************************)
ErrorPool ==
    { Assign(<<Name("x")>>, Num(1)),
      Assign(<<Name("y")>>, Num(2)),
      ExprStmt(Call(Name("print"), <<Name("x")>>)),
      ExprStmt(Name("z")),
      ExprStmt(Call(Name("len"), <<>>)),
      ExprStmt(BinOp(Num(1), "+", Constant(StrV("a")))),
      Break, Continue, Return(Num(1)) }

ErrorAssign == \E s \in ErrorPool : s.type = "Assign" /\ Exec(s, MaxStmts)
ErrorExpr == \E s \in ErrorPool : s.type = "ExprStmt" /\ Exec(s, MaxStmts)
ErrorSignal ==
    \E s \in ErrorPool : s.type \in {"Break", "Continue", "Return"} /\ Exec(s, MaxStmts)
ErrorNext == ErrorAssign \/ ErrorExpr \/ ErrorSignal
SpecError == InterpInit /\ [][ErrorNext]_vars

\* interpret (853-858): `Interpreter().visit(module)` is not inside a try
\* statement, so the exception that leaves visit_Module leaves interpret
interpret_raises == interp.exc

\* C11: no exception leaves interpret, whatever the program does.
C11_NoErrorEscapes == interpret_raises = "none"

(***************************************************************************)
(* Arity.  The statements of the programs:                                 *)
(*     def f(a):         f(1)    f()    f(1, 2)    print()                 *)
(*         print(a)      len()   enumerate()   x = enumerate(1, 2)         *)
(*     d = deque()       d.append()    d.popleft(1)    deque(1)            *)
(***************************************************************************)
ArityPool ==
    { FunctionDef("f", <<"a">>, <<ExprStmt(Call(Name("print"), <<Name("a")>>))>>, <<>>),
      ExprStmt(Call(Name("f"), <<Num(1)>>)),
      ExprStmt(Call(Name("f"), <<>>)),
      ExprStmt(Call(Name("f"), <<Num(1), Num(2)>>)),
      ExprStmt(Call(Name("print"), <<>>)),
      ExprStmt(Call(Name("len"), <<>>)),
      ExprStmt(Call(Name("enumerate"), <<>>)),
      Assign(<<Name("x")>>, Call(Name("enumerate"), <<Num(1), Num(2)>>)),
      Assign(<<Name("d")>>, Call(Name("deque"), <<>>)),
      ExprStmt(Call(Attribute(Name("d"), "append"), <<>>)),
      ExprStmt(Call(Attribute(Name("d"), "popleft"), <<Num(1)>>)),
      ExprStmt(Call(Name("deque"), <<Num(1)>>)) }

ArityDef == \E s \in ArityPool : s.type = "FunctionDef" /\ Exec(s, MaxStmts)
ArityCall == \E s \in ArityPool : s.type = "ExprStmt" /\ Exec(s, MaxStmts)
ArityAssign == \E s \in ArityPool : s.type = "Assign" /\ Exec(s, MaxStmts)
ArityNext == ArityDef \/ ArityCall \/ ArityAssign
SpecArity == InterpInit /\ [][ArityNext]_vars

\* arg_count of the classes of Function (interpreter.py 83-84, 111-112,
\* 131-132, 144-145, 161-162, 203-204, 237-238, 266-267, 300-301); Print
\* declares 0 and never calls ensure_args
arg_count(function) ==
    CASE function.kind \in {"Len", "Int", "Float", "Enumerate", "Append"} -> 1
      [] function.kind \in {"DequeConstructor", "PopLeft", "Print"} -> 0
      [] function.kind = "UserFunction" -> Len(function.definition.params)

\* C12: a call of anything but print with a number of arguments that is
\* not the callee's arity raises at the call: the call event is followed
\* at once by its exit, and the exit carries an exception.
C12_ArityChecked ==
    \A i \in Events("call") :
        (/\ interp.log[i].function.kind # "Print"
         /\ Len(interp.log[i].args) # arg_count(interp.log[i].function)) =>
            /\ interp.log[i + 1].ev = "exit"
            /\ interp.log[i + 1].exc # "none"

(***************************************************************************)
(* Truthiness.  The statements of the programs:                            *)
(*     c = []    c = ()    c = deque()    c = 0    c = ""    c = None      *)
(*     c = 2     c = float(0)             c.append(1)                      *)
(*     if c:              while c:                                         *)
(*         r = 1              r = 1                                        *)
(*     else:                  break                                        *)
(*         r = 0                                                           *)
(***************************************************************************)
TruthValues ==
    { ListNode(<<>>), TupleNode(<<>>), Call(Name("deque"), <<>>), Num(0), Num(2),
      Constant(StrV("")), Constant(None), Call(Name("float"), <<Num(0)>>) }
TruthPool ==
    { Assign(<<Name("c")>>, v) : v \in TruthValues }
        \cup { ExprStmt(Call(Attribute(Name("c"), "append"), <<Num(1)>>)),
               If(Name("c"), <<Assign(<<Name("r")>>, Num(1))>>, <<Assign(<<Name("r")>>, Num(0))>>),
               While(Name("c"), <<Assign(<<Name("r")>>, Num(1)), Break>>, <<>>) }

TruthAssign == \E s \in TruthPool : s.type = "Assign" /\ Exec(s, MaxStmts)
TruthAppend == \E s \in TruthPool : s.type = "ExprStmt" /\ Exec(s, MaxStmts)
TruthIf == \E s \in TruthPool : s.type = "If" /\ Exec(s, MaxStmts)
TruthWhile == \E s \in TruthPool : s.type = "While" /\ Exec(s, MaxStmts)
TruthNext == TruthAssign \/ TruthAppend \/ TruthIf \/ TruthWhile
SpecTruth == InterpInit /\ [][TruthNext]_vars

\* the objects the claim calls falsy: None, False, 0, 0.0, the empty
\* string and the empty containers
Falsy(e) ==
    \/ e.size = 0
    \/ IsValue(e.val) /\ e.val.ty = "NoneType"
    \/ IsValue(e.val) /\ e.val.ty = "bool" /\ ~e.val.bool
    \/ IsValue(e.val) /\ e.val.ty \in {"int", "float"} /\ e.val.int = 0

\* C13: a condition is taken as false exactly when its value is None,
\* False, 0, 0.0, an empty string or an empty list, tuple or deque.
C13_EmptyIsFalsy ==
    \A i \in Events("test") : interp.log[i].truthy = ~Falsy(interp.log[i])

(***************************************************************************)
(* Loop else.  The statements of the programs, with S one of pass, break:  *)
(*     c = 0                                                               *)
(*     for x in [1, 2]:          while c < 2:                              *)
(*         S                         c = c + 1                             *)
(*     else:                         S                                     *)
(*         print("else")         else:                                     *)
(*                                   print("else")                         *)
(***************************************************************************)
PrintElse == ExprStmt(Call(Name("print"), <<Constant(StrV("else"))>>))
ForElse(S) == For(<<Name("x")>>, <<ListNode(<<Num(1), Num(2)>>)>>, <<S>>, <<PrintElse>>)
WhileElse(S) == While(Compare(Name("c"), "<", Num(2)), <<Incr("c"), S>>, <<PrintElse>>)
ElsePool ==
    { Assign(<<Name("c")>>, Num(0)),
      ForElse(Pass), ForElse(Break), WhileElse(Pass), WhileElse(Break) }

ElseAssign == \E s \in ElsePool : s.type = "Assign" /\ Exec(s, MaxStmts)
ElseFor == \E s \in ElsePool : s.type = "For" /\ Exec(s, MaxStmts)
ElseWhile == \E s \in ElsePool : s.type = "While" /\ Exec(s, MaxStmts)
ElseNext == ElseAssign \/ ElseFor \/ ElseWhile
SpecElse == InterpInit /\ [][ElseNext]_vars

\* the loops with an else part that ended without a break
Exhausted ==
    {i \in Events("loop_exit") :
        /\ interp.log[i].why = "exhausted"
        /\ interp.log[interp.log[i].loop].orelse # <<>>}

\* C14: the else part of a loop runs once when the loop ends without a
\* break and not at all when a break ends it: in these programs, where
\* only the else parts print, there is one line of output for every loop
\* that ended without a break.
C14_OrelseRuns == Len(interp.out) = Cardinality(Exhausted)

(***************************************************************************)
(* Unpacking in for.  The statements of the programs, with E one of        *)
(* (1,), (1, 2), (1, 2, 3), [1, 2], 5:                                     *)
(*     for a, b in [E, (3, 4)]:                                            *)
(*         print(a, b)                                                     *)
(***************************************************************************)
UnpackElements ==
    { TupleNode(<<Num(1)>>), TupleNode(<<Num(1), Num(2)>>),
      TupleNode(<<Num(1), Num(2), Num(3)>>), ListNode(<<Num(1), Num(2)>>), Num(5) }
UnpackPool ==
    { For(<<Name("a"), Name("b")>>, <<ListNode(<<E, TupleNode(<<Num(3), Num(4)>>)>>)>>,
          <<ExprStmt(Call(Name("print"), <<Name("a"), Name("b")>>))>>, <<>>) :
        E \in UnpackElements }

UnpackFor == \E s \in UnpackPool : Exec(s, MaxStmts)
SpecUnpack == InterpInit /\ [][UnpackFor]_vars

\* the items of the element of an unpacking
ItemsOf(e) == IF e.value.kind = "Tuple" THEN e.value.data ELSE interp.heap[e.value.ref]

\* C15: unpacking an element into n > 1 targets raises unless the element
\* has exactly n items, and then binds the targets to the items in order.
C15_UnpackExactLength ==
    \A i \in Events("unpack") :
        LET e == interp.log[i]
        IN  IF e.size = e.targets
                THEN e.exc = "none" /\ e.bound = ItemsOf(e)
                ELSE e.exc # "none"


(***************************************************************************)
(* for loops over the iterable kinds (interpreter.py 585-609, 388-427):    *)
(* programs that fill a deque and loop over a list, a tuple, the deque, a  *)
(* string and enumerate(list) with one target.                             *)
(***************************************************************************)
IterSources ==
    { ListNode(<<Num(1), Num(2)>>), TupleNode(<<Num(1), Num(2)>>), Name("d"),
      Constant(StrV("ab")), Call(Name("enumerate"), <<ListNode(<<Num(1), Num(2)>>)>>) }
IterPool ==
    { Assign(<<Name("d")>>, Call(Name("deque"), <<>>)),
      ExprStmt(Call(Attribute(Name("d"), "append"), <<Num(1)>>)) }
    \cup { For(<<Name("x")>>, <<E>>, <<ExprStmt(Call(Name("print"), <<Name("x")>>))>>, <<>>) :
              E \in IterSources }

IterAssign == \E s \in IterPool : s.type = "Assign" /\ Exec(s, MaxStmts)
IterAppend == \E s \in IterPool : s.type = "ExprStmt" /\ Exec(s, MaxStmts)
IterFor == \E s \in IterPool : s.type = "For" /\ Exec(s, MaxStmts)
IterNext == IterAssign \/ IterAppend \/ IterFor
SpecIter == InterpInit /\ [][IterNext]_vars

\* the number of elements the iterable of a for loop holds
ElementCount(src) ==
    IF src.kind = "generator" THEN Len(interp.heap[src.args[1].ref])
    ELSE SizeOf(src, interp)
\* the passes a loop has made over its body
Passes(lid) == {i \in Events("iter") : interp.log[i].loop = lid}

\* C16: a for loop with one iterable and one target runs its body once per
\* element for every kind of iterable: list, tuple, deque, string and the
\* iterator of enumerate
C16_ForOverEveryIterable ==
    \A i \in Events("loop") :
        interp.log[i].kind = "For" =>
            Cardinality(Passes(i)) = ElementCount(interp.log[i].iterable)


(***************************************************************************)
(* Assignment to a name (interpreter.py 527-533, 48-52), over the programs *)
(* of SpecScope: x is assigned at module level and inside bar, g and h.    *)
(***************************************************************************)
\* C17: an Assign to a Name binds the name to the value in the active scope
\* and changes the bindings of no other scope, also when an enclosing scope
\* or the globals scope binds the same name
C17_AssignInnermostOnly ==
    \A i \in Events("assign") :
        LET e == interp.log[i]
        IN  e.changed \subseteq {e.scope} /\ e.bound = e.value

\* a function body has assigned a name that another scope binds as well
C17_Witness ==
    \E i \in Events("assign") :
        LET e == interp.log[i]
        IN  /\ e.scope # interp.globals
            /\ interp.globals \in e.elsewhere
            /\ e.changed = {e.scope}
            /\ Scope_get(interp, interp.globals, e.name) # e.value


(***************************************************************************)
(* Parsing (parser.py 179-185).  The token list is given from the start,   *)
(* and each step is one pass of the loop of Parser.parse: one more         *)
(* statement, or the exception that ends the parse.  The positions of the  *)
(* tokens play no part in the Parser and are left at 0.                    *)
(***************************************************************************)
NameTok(string) == Token("NAME", string, 0, 0)
OpTok(string) == Token("OP", string, 0, 0)
NewlineTok == Token("NEWLINE", "\n", 0, 0)

\* the state of a run that only parses, but for the token list
ParserStart ==
    /\ parser = NewParser
    /\ interp = NewInterpreter
    /\ body = <<>>
    /\ source = <<>>
    /\ start = 0
    /\ next = 0
    /\ indents = <<<<>>>>
    /\ bracket_level = 0
    /\ tok_error = "none"

\* Parser.parse (179-185): one pass of `while not self.parsed`
ParseStatement ==
    /\ parser.err = "none"
    /\ ~Parser_parsed(tokens, parser.index)
    /\ parser' = Bind(ParseAt(tokens, parser.index), LAMBDA r :
                      IF r.err = "none"
                          THEN [parser EXCEPT !.index = r.index,
                                              !.statements = Append(@, r.node)]
                      ELSE [parser EXCEPT !.err = r.err, !.at = r.at])
    /\ UNCHANGED <<tok_vars, interp, body>>

\* a token list with and without the NEWLINE that ends its last line
WithEnds(lists) == lists \cup {SubSeq(ts, 1, Len(ts) - 1) : ts \in lists}

(***************************************************************************)
(* Lines of one word (parser.py 277-314): pass, break, continue and a name *)
(* for comparison, up to MaxLines lines.                                   *)
(***************************************************************************)
LineWords == {"pass", "break", "continue", "x"}
RECURSIVE Lines(_)
Lines(n) ==
    IF n = 0 THEN {<<>>}
    ELSE {<<NameTok(w), NewlineTok>> \o rest : w \in LineWords, rest \in Lines(n - 1)}
KeywordTokens == WithEnds(UNION {Lines(n) : n \in 1..MaxLines})

KeywordInit == tokens \in KeywordTokens /\ ParserStart
SpecKeyword == KeywordInit /\ [][ParseStatement]_vars

\* the node the k-th line of one word stands for
LineNode(k) ==
    LET w == tokens[2 * k - 1].string
    IN  CASE w = "pass" -> Pass
          [] w = "break" -> Break
          [] w = "continue" -> Continue
          [] OTHER -> ExprStmt(Name(w))

\* C18: pass, break and continue, each on a line by itself and followed by
\* NEWLINE or the end of the input, parse without error to one Pass, Break
\* and Continue node
C18_KeywordLines ==
    /\ parser.err = "none"
    /\ \A k \in 1..Len(parser.statements) :
           tokens[2 * k - 1].string # "x" => parser.statements[k] = LineNode(k)


(***************************************************************************)
(* Parentheses (parser.py 604-637): one line over the tokens ( ) , a b, up *)
(* to MaxExprLen tokens.                                                   *)
(***************************************************************************)
RECURSIVE TokenSeqs(_, _)
TokenSeqs(alphabet, n) ==
    IF n = 0 THEN {<<>>}
    ELSE {<<t>> \o rest : t \in alphabet, rest \in TokenSeqs(alphabet, n - 1)}
\* the lines of 1 to n tokens over alphabet, each ended by a NEWLINE
LinesOver(alphabet, n) ==
    {ts \o <<NewlineTok>> : ts \in UNION {TokenSeqs(alphabet, k) : k \in 1..n}}

ParenAlphabet == {OpTok("("), OpTok(")"), OpTok(","), NameTok("a"), NameTok("b")}
ParenTokens == WithEnds(LinesOver(ParenAlphabet, MaxExprLen))

ParenInit == tokens \in ParenTokens /\ ParserStart
SpecParen == ParenInit /\ [][ParseStatement]_vars

\* the nodes below an expression node of these lines
Children(node) ==
    CASE node.type = "Tuple" -> node.elements
      [] node.type = "Call" -> <<node.function>> \o node.args
      [] node.type = "BinOp" -> <<node.left, node.right>>
      [] node.type = "UnaryOp" -> <<node.value>>
      [] node.type = "ExprStmt" -> <<node.value>>
      [] OTHER -> <<>>
\* a Tuple node of exactly one element somewhere in node
RECURSIVE HasOneTuple(_)
HasOneTuple(node) ==
    \/ node.type = "Tuple" /\ Len(node.elements) = 1
    \/ \E k \in 1..Len(Children(node)) : HasOneTuple(Children(node)[k])

\* C19: '(' e ')' parses to e itself: a Tuple node comes only from '()' and
\* from two or more expressions between the parentheses, so no statement
\* parsed holds a Tuple of one element
C19_ParenthesizedIsInner ==
    \A k \in 1..Len(parser.statements) : ~HasOneTuple(parser.statements[k])

(***************************************************************************)
(* Arithmetic (parser.py 509-541): one line over the tokens a b - * **, up *)
(* to MaxExprLen tokens.                                                   *)
(***************************************************************************)
PrecAlphabet == {NameTok("a"), NameTok("b"), OpTok("-"), OpTok("*"), OpTok("**")}
PrecTokens == WithEnds(LinesOver(PrecAlphabet, MaxExprLen))

PrecInit == tokens \in PrecTokens /\ ParserStart
SpecPrec == PrecInit /\ [][ParseStatement]_vars

\* the rung of the precedence ladder an expression node stands on: sums,
\* products, signs, powers, primaries
Level(node) ==
    CASE node.type = "BinOp" /\ node.op \in {"+", "-"} -> 1
      [] node.type = "BinOp" /\ node.op \in {"*", "/", "//", "%", "@"} -> 2
      [] node.type = "UnaryOp" -> 3
      [] node.type = "BinOp" /\ node.op = "**" -> 4
      [] OTHER -> 5
\* every operator of node has operands of the rungs its method calls for:
\* a sum has a product or tighter on its right, a product has no sum on its
\* left and a sign or tighter on its right, a sign has a sign or tighter below
\* it, a power has a primary on its left and a sign or tighter on its right
RECURSIVE Ladder(_)
Ladder(node) ==
    CASE node.type = "BinOp" ->
             /\ Ladder(node.left)
             /\ Ladder(node.right)
             /\ CASE Level(node) = 1 -> Level(node.right) >= 2
                  [] Level(node) = 2 -> Level(node.left) >= 2 /\ Level(node.right) >= 3
                  [] OTHER -> Level(node.left) = 5 /\ Level(node.right) >= 3
      [] node.type = "UnaryOp" -> Ladder(node.value) /\ Level(node.value) >= 3
      [] OTHER -> TRUE
\* the operators and names of node from left to right
RECURSIVE InOrder(_)
InOrder(node) ==
    CASE node.type = "BinOp" -> InOrder(node.left) \o <<node.op>> \o InOrder(node.right)
      [] node.type = "UnaryOp" -> <<node.op>> \o InOrder(node.value)
      [] OTHER -> <<node.id>>
\* what the parser reads off the tokens of the line: their strings, but the
\* string of EOF for a name that is the last token of the input (124-128)
Spelled ==
    LET n == IF tokens[Len(tokens)] = NewlineTok THEN Len(tokens) - 1 ELSE Len(tokens)
    IN  [k \in 1..n |-> IF k = Len(tokens) /\ tokens[k].token_type = "NAME"
                            THEN EOF.string
                        ELSE tokens[k].string]
\* Parser.parse has returned or raised
ParseOver == parser.err # "none" \/ Parser_parsed(tokens, parser.index)
\* the line of these token strings, names a and b apart from the operators
LineOf(strings) ==
    [k \in 1..Len(strings) |-> IF strings[k] \in {"a", "b"} THEN NameTok(strings[k])
                               ELSE OpTok(strings[k])] \o <<NewlineTok>>

\* C20: the statement parsed from a line of names and - * ** holds the
\* tokens in their order under operators whose operands stand on the rungs
\* of the ladder (products bind tighter than sums, both group to the left, a
\* power binds tighter than a sign on its left and groups to the right), and
\* a - b - a, a - b * a, -a ** b and a ** b ** a parse to the trees this gives
C20_PrecedenceLadder ==
    /\ \A k \in 1..Len(parser.statements) :
           /\ parser.statements[k].type = "ExprStmt"
           /\ Ladder(parser.statements[k].value)
           /\ InOrder(parser.statements[k].value) = Spelled
    /\ ParseOver /\ tokens = LineOf(<<"a", "-", "b", "-", "a">>)
           => parser.statements
                  = <<ExprStmt(BinOp(BinOp(Name("a"), "-", Name("b")), "-", Name("a")))>>
    /\ ParseOver /\ tokens = LineOf(<<"a", "-", "b", "*", "a">>)
           => parser.statements
                  = <<ExprStmt(BinOp(Name("a"), "-", BinOp(Name("b"), "*", Name("a"))))>>
    /\ ParseOver /\ tokens = LineOf(<<"-", "a", "**", "b">>)
           => parser.statements
                  = <<ExprStmt(UnaryOp(BinOp(Name("a"), "**", Name("b")), "-"))>>
    /\ ParseOver /\ tokens = LineOf(<<"a", "**", "b", "**", "a">>)
           => parser.statements
                  = <<ExprStmt(BinOp(Name("a"), "**", BinOp(Name("b"), "**", Name("a"))))>>
C20_Witness ==
    /\ tokens = LineOf(<<"a", "-", "b", "-", "a">>)
    /\ parser.statements
           = <<ExprStmt(BinOp(BinOp(Name("a"), "-", Name("b")), "-", Name("a")))>>

(***************************************************************************)
(* Dotted module names (interpreter.py 450-483).  The statements of the    *)
(* programs, over the module names a, p.q and x.y:                         *)
(*     import a    import p.q    import x.y                                *)
(*     from a import *    from p.q import *    from x.y import *           *)
(***************************************************************************)
ModuleNames == {<<"a">>, <<"p", "q">>, <<"x", "y">>}
\* the parts of a module name joined by sep
RECURSIVE Joined(_, _)
Joined(parts, sep) ==
    IF Len(parts) = 1 THEN parts[1]
    ELSE parts[1] \o sep \o Joined(Tail(parts), sep)
\* the name as parse_import (342) and parse_importfrom (360) spell it
Dotted(parts) == Joined(parts, ".")
PathPool ==
    {Import(<<alias(Dotted(parts), "")>>) : parts \in ModuleNames}
        \cup {ImportFrom(Dotted(parts), <<alias("*", "")>>) : parts \in ModuleNames}

PathImport == \E s \in PathPool : s.type = "Import" /\ Exec(s, MaxStmts)
PathImportFrom == \E s \in PathPool : s.type = "ImportFrom" /\ Exec(s, MaxStmts)
PathNext == PathImport \/ PathImportFrom
SpecPath == InterpInit /\ [][PathNext]_vars

\* C21: an import of the module name a.b.c opens the file a/b/c.py, each dot
\* replaced by a path separator, below the working directory
C21_DottedNameIsPath ==
    \A i \in Events("open") : \A parts \in ModuleNames :
        interp.log[i].module = Dotted(parts)
            => interp.log[i].path = Joined(parts, "/") \o ".py"


(***************************************************************************)
(* Indentation: sources made of lines, leading whitespace and names, long  *)
(* enough for three open levels.  Only the newline, whitespace and         *)
(* identifier branches of scan_token can be taken on such sources.         *)
(***************************************************************************)
MaxIndentLen == 11  \* longest source over newline and space
MaxTabLen == 5      \* longest source over newline, space, tab and a letter

IndentSources ==
    SeqsUpTo({NL, " "}, MaxIndentLen) \cup SeqsUpTo({NL, " ", "\t", "a"}, MaxTabLen)

IndentInit ==
    /\ source \in IndentSources
    /\ tokens = <<>>
    /\ start = 0
    /\ next = 0
    /\ indents = <<<<>>>>
    /\ bracket_level = 0
    /\ tok_error = "none"
    /\ interp = NewInterpreter
    /\ body = <<>>
    /\ parser = NewParser

IndentNext == ScanNewline \/ ScanWhitespace \/ ScanIdentifier

SpecIndent == IndentInit /\ [][IndentNext]_vars

\* the leading whitespace of the line that starts after the character at the cursor
LeadingEnd ==
    CHOOSE m \in (next + 1)..Len(source) :
        /\ \A j \in (next + 2)..m : source[j] \in {" ", "\t"}
        /\ m = Len(source) \/ source[m + 1] \notin {" ", "\t"}
Leading == SubSeq(source, next + 2, LeadingEnd)

DedentLine ==
    /\ Scanning
    /\ NewlineStartsLine(char)
    /\ Len(Leading) < Len(indents[Len(indents)])
    /\ SeqContains(indents, Leading)

\* C22: a line at bracket depth 0 whose leading whitespace is shorter than
\* the top of the indent stack and equal to an entry of the stack pops the
\* stack down to that entry and not through it, emits the NEWLINE followed
\* by exactly one DEDENT per popped entry and nothing else, and raises no
\* error; afterwards the line's whitespace is the top of the stack.
C22_DedentPopsToEntry ==
    [][DedentLine =>
          /\ tok_error' = "none"
          /\ Len(indents') >= 1 /\ Len(indents') < Len(indents)
          /\ indents' = SubSeq(indents, 1, Len(indents'))
          /\ indents'[Len(indents')] = Leading
          /\ Len(tokens') = Len(tokens) + 1 + (Len(indents) - Len(indents'))
          /\ SubSeq(tokens', 1, Len(tokens)) = tokens
          /\ tokens'[Len(tokens) + 1].token_type = "NEWLINE"
          /\ \A j \in (Len(tokens) + 2)..Len(tokens') : tokens'[j].token_type = "DEDENT"
      ]_tok_vars

\* three levels were opened and a single line has closed two of them
C22_Witness ==
    /\ CountType(tokens, "INDENT") = 3
    /\ CountType(tokens, "DEDENT") = 2
    /\ indents = << <<>>, <<" ">> >>
    /\ tokens[Len(tokens)].token_type = "DEDENT"
    /\ tokens[Len(tokens) - 1].token_type = "DEDENT"
    /\ tokens[Len(tokens) - 2].token_type = "NEWLINE"


\* C23: a scan_token call that reads '#' discards characters only up to the
\* next newline and not the newline itself: no newline is among the
\* characters the call consumes, so the newline that ends the comment line
\* is left for the next call and no character of the following line is
\* discarded; this also holds of '#' immediately followed by a newline.
C23_CommentStopsAtNewline ==
    [][(Scanning /\ char = "#") =>
          \A j \in (next + 1)..next' : j <= Len(source) => source[j] # NL
      ]_tok_vars


\* the position in s of the first quote q at or after j that is not the
\* second character of an escape, a backslash and the character after it
\* being taken together; 0 when there is none
RECURSIVE ClosingQuote(_, _, _)
ClosingQuote(s, j, q) ==
    IF j > Len(s) THEN 0
    ELSE IF s[j] = "\\" THEN ClosingQuote(s, j + 2, q)
    ELSE IF s[j] = q THEN j
    ELSE ClosingQuote(s, j + 1, q)

\* C24: inside a string literal a backslash and the character after it are
\* consumed together as one escape: the quote that ends a single-quoted
\* STRING token is the first quote of the delimiter kind that is not the
\* second character of an escape, so an escaped quote does not terminate the
\* string and the character after an escaped backslash is an ordinary one.
C24_EscapeIsOneUnit ==
    [][(Scanning /\ char \in Quotes /\ tok_error' = "none"
            /\ ~(peekAt(next + 1) = char /\ peek_nextAt(next + 1) = char)) =>
          LET s == tokens'[Len(tokens')].string
          IN  ClosingQuote(s, 2, char) = Len(s)
      ]_tok_vars


\* C25: every ParseError raised while parsing a token list carries an index
\* that is a position of that token list, so that the driver's tokens[index]
\* succeeds, also when the error is detected at the end of the input.
C25_ErrorIndexInTokens ==
    parser.err = "ParseError" => parser.at < Len(tokens)


(***************************************************************************)
(* Membership (interpreter.py 680-692).  The statements of the programs:   *)
(*     c = "ab"   c = [1, "a"]   c = (1, "a")   c = {1: 2, "a": 1}         *)
(*     c = deque()   c.append(1)                                           *)
(*     r = x in c   s = x not in c      for x one of 1, "a", "ba"          *)
(***************************************************************************)
MaxMemberStmts == 4

Str(s) == Constant(StrV(s))
MemberContainers ==
    { Str("ab"),
      ListNode(<<Num(1), Str("a")>>),
      TupleNode(<<Num(1), Str("a")>>),
      DictNode(<<Num(1), Str("a")>>, <<Num(2), Num(1)>>),
      Call(Name("deque"), <<>>) }
MemberProbes == {Num(1), Str("a"), Str("ba")}

MemberAssign == \E c \in MemberContainers : Exec(Assign(<<Name("c")>>, c), MaxMemberStmts)
MemberAppend ==
    Exec(ExprStmt(Call(Attribute(Name("c"), "append"), <<Num(1)>>)), MaxMemberStmts)
MemberIn ==
    \E x \in MemberProbes :
        Exec(Assign(<<Name("r")>>, Compare(x, "in", Name("c"))), MaxMemberStmts)
MemberNotIn ==
    \E x \in MemberProbes :
        Exec(Assign(<<Name("s")>>, Compare(x, "not in", Name("c"))), MaxMemberStmts)
MemberNext == MemberAssign \/ MemberAppend \/ MemberIn \/ MemberNotIn
SpecMember == InterpInit /\ [][MemberNext]_vars

\* the comparison is one Python itself defines: a container of the five
\* kinds, and a string probe when the container is a string
MemberDefined(e) ==
    /\ IsValue(e.probe)
    /\ \/ e.container.kind \in ContainerKinds
       \/ IsValue(e.container) /\ e.container.ty = "str" /\ e.probe.ty = "str"

\* C26: for a container of each kind (string, list, tuple, deque, dict) and
\* every probe x, `x not in c` evaluates to a Bool, and that Bool is the
\* negation of what `x in c` gives for the same probe and the same contents.
C26_NotInNegatesIn ==
    \A j \in Events("member") :
        LET e == interp.log[j]
        IN  (e.op = "not in" /\ MemberDefined(e)) =>
                /\ e.exc = "none"
                /\ e.gave \in {BoolV(TRUE), BoolV(FALSE)}
                /\ \A i \in Events("member") :
                       LET f == interp.log[i]
                       IN  (f.op = "in" /\ f.probe = e.probe /\ f.container.kind = e.container.kind
                                /\ f.elements = e.elements /\ f.exc = "none"
                                /\ (IsValue(e.container) => f.container = e.container)) =>
                               e.gave = BoolV(~f.gave.bool)


(***************************************************************************)
(* Import statements: the lines of 1 to MaxAliasLen tokens over            *)
(*     import  from  a  as  ,  .                                           *)
(***************************************************************************)
MaxAliasLen == 5

AliasAlphabet ==
    {NameTok("import"), NameTok("from"), NameTok("a"), NameTok("as"), OpTok(","), OpTok(".")}
AliasTokens == WithEnds(LinesOver(AliasAlphabet, MaxAliasLen))

AliasInit == tokens \in AliasTokens /\ ParserStart
SpecAlias == AliasInit /\ [][ParseStatement]_vars

\* C27: Parser.parse terminates on every finite token list: no loop of the
\* parser makes a pass that neither consumes a token nor leaves the loop, so
\* a line such as `import a a` or `from a import a a` ends in a ParseError.
C27_ParserTerminates == parser.err # "Hang"


StrictPrefix(p, s) == Len(p) < Len(s) /\ SubSeq(s, 1, Len(p)) = p

\* C28: at every point of tokenization the indent stack has the empty
\* string at the bottom, each entry is a strict prefix of the entry above
\* it, and the INDENT tokens emitted so far less the DEDENT tokens emitted
\* so far number the stack size minus 1.
C28_IndentStackShape ==
    /\ Len(indents) >= 1
    /\ indents[1] = <<>>
    /\ \A k \in 1..(Len(indents) - 1) : StrictPrefix(indents[k], indents[k + 1])
    /\ CountType(tokens, "INDENT") - CountType(tokens, "DEDENT") = Len(indents) - 1

\* a level was opened and closed, and two levels are open now
C28_Witness ==
    /\ CountType(tokens, "DEDENT") = 1
    /\ CountType(tokens, "INDENT") = 3
    /\ Len(indents) = 3


(***************************************************************************)
(* break and continue in a function called from a loop.  The statements of *)
(* the programs, S one of f(), g(), h():                                   *)
(*     def f():       def g():         def h():                 i = 0      *)
(*         break          continue         for y in [1]:                   *)
(*                                             break                       *)
(*     while i < 3:                    for x in [1, 2, 3]:                 *)
(*         i = i + 1                       if x == 2:                      *)
(*         if i == 2:                          S                           *)
(*             S                           n = x                           *)
(*         n = i                                                           *)
(***************************************************************************)
CallTo(name) == ExprStmt(Call(Name(name), <<>>))
EscapePool ==
    { FunctionDef("f", <<>>, <<Break>>, <<>>),
      FunctionDef("g", <<>>, <<Continue>>, <<>>),
      FunctionDef("h", <<>>, <<For(<<Name("y")>>, <<ListNode(<<Num(1)>>)>>, <<Break>>, <<>>)>>, <<>>),
      Assign(<<Name("i")>>, Num(0)) }
        \cup {WhileWith(CallTo(name)) : name \in {"f", "g", "h"}}
        \cup {ForWith(CallTo(name)) : name \in {"f", "g", "h"}}

EscapeDef == \E s \in EscapePool : s.type = "FunctionDef" /\ Exec(s, MaxStmts)
EscapeAssign == \E s \in EscapePool : s.type = "Assign" /\ Exec(s, MaxStmts)
EscapeWhile == \E s \in EscapePool : s.type = "While" /\ Exec(s, MaxStmts)
EscapeFor == \E s \in EscapePool : s.type = "For" /\ Exec(s, MaxStmts)
EscapeNext == EscapeDef \/ EscapeAssign \/ EscapeWhile \/ EscapeFor
SpecEscape == InterpInit /\ [][EscapeNext]_vars

\* the break or continue statements run in a function body, outside any
\* loop of that function
Stray == {k \in Events("raise") : /\ interp.log[k].exc \in {"Break", "Continue"}
                                  /\ interp.log[k].loop = 0
                                  /\ interp.log[k].depth > 0}
\* the loop L is running when event k is written
Running(L, k) ==
    /\ L < k
    /\ \A m \in (L + 1)..(k - 1) :
          interp.log[m].ev \in {"loop_exit", "loop_abort"} => interp.log[m].loop # L
\* after event k the loop L ends or goes to its next pass before another
\* statement of its body has run
CutShort(L, k) ==
    \E m \in (k + 1)..Len(interp.log) :
        /\ interp.log[m].ev \in {"cond", "iter", "loop_exit", "loop_abort"}
        /\ interp.log[m].loop = L
        /\ \A j \in (k + 1)..(m - 1) :
              interp.log[j].ev \in LoopEvents => interp.log[j].loop # L

\* C29: a break or continue executed in the body of a user function,
\* outside any loop of that function, never affects a loop of the caller:
\* the loop running in the code that called the function neither ends nor
\* goes to its next pass before the statements after the call have run.
C29_SignalStaysInFunction ==
    \A k \in Stray : \A L \in Events("loop") : Running(L, k) => ~CutShort(L, k)


(***************************************************************************)
(* Builtin names in function bodies.  The statements of the programs:      *)
(*     len = 5        def f():           def p(len):       def q():        *)
(*     x = 5              return len         return len        len = 3     *)
(*                                                             return len  *)
(*     def outer():                      def g():                          *)
(*         int = 1                           return x                      *)
(*         def inner():                                                    *)
(*             return int                                                  *)
(*         return inner()                                                  *)
(*     r = f()    r = p(2)    r = q()    r = outer()    r = g()            *)
(***************************************************************************)
BuiltinPool ==
    { Assign(<<Name("len")>>, Num(5)),
      Assign(<<Name("x")>>, Num(5)),
      FunctionDef("f", <<>>, <<Return(Name("len"))>>, <<>>),
      FunctionDef("p", <<"len">>, <<Return(Name("len"))>>, <<>>),
      FunctionDef("q", <<>>, <<Assign(<<Name("len")>>, Num(3)), Return(Name("len"))>>, <<>>),
      FunctionDef("g", <<>>, <<Return(Name("x"))>>, <<>>),
      FunctionDef("outer", <<>>,
          <<Assign(<<Name("int")>>, Num(1)),
            FunctionDef("inner", <<>>, <<Return(Name("int"))>>, <<>>),
            Return(Call(Name("inner"), <<>>))>>, <<>>),
      Assign(<<Name("r")>>, Call(Name("f"), <<>>)),
      Assign(<<Name("r")>>, Call(Name("p"), <<Num(2)>>)),
      Assign(<<Name("r")>>, Call(Name("q"), <<>>)),
      Assign(<<Name("r")>>, Call(Name("g"), <<>>)),
      Assign(<<Name("r")>>, Call(Name("outer"), <<>>)) }

BuiltinRebind == \E s \in BuiltinPool : s.type = "Assign" /\ s.value.type = "Constant" /\ Exec(s, MaxStmts)
BuiltinDef == \E s \in BuiltinPool : s.type = "FunctionDef" /\ Exec(s, MaxStmts)
BuiltinCall == \E s \in BuiltinPool : s.type = "Assign" /\ s.value.type = "Call" /\ Exec(s, MaxStmts)
BuiltinNext == BuiltinRebind \/ BuiltinDef \/ BuiltinCall
SpecBuiltin == InterpInit /\ [][BuiltinNext]_vars

\* the name an assignment or a def statement binds, and what it binds it to
BoundName(a) ==
    IF interp.log[a].ev = "assign" THEN interp.log[a].name ELSE interp.log[a].node.name
BoundValue(a) ==
    IF interp.log[a].ev = "assign" THEN interp.log[a].value ELSE interp.log[a].bound
\* the assignments and defs that bound the name of lookup event i in scope
\* sid before it
AssignsBefore(i, sid) ==
    {a \in Events("assign") \cup Events("def") :
        /\ a < i
        /\ interp.log[a].scope = sid
        /\ BoundName(a) = interp.log[i].name}
\* the function F, in whose call lookup event i is made, binds the name itself
BindsItself(i, F) ==
    \/ \E k \in 1..Len(F.definition.params) : F.definition.params[k] = interp.log[i].name
    \/ AssignsBefore(i, interp.log[i].scope) # {}
\* what the nearest binding of the name outside the call holds at lookup
\* event i: the value last assigned there, or the builtin a scope is made with
EnclosingValue(i, F) ==
    LET e == interp.log[i]
        sid == FirstBound(Chain(F.parent_scope) \o <<F.current_globals>>, e.bound)
        assigns == AssignsBefore(i, sid)
    IN  IF sid = 0 THEN NOT_SET
        ELSE IF assigns # {}
            THEN BoundValue(CHOOSE a \in assigns : \A b \in assigns : b <= a)
        ELSE IF e.name \in BuiltinNames THEN ScopeData[e.name]
        ELSE Scope_get(interp, sid, e.name)

\* C30: inside a function body a name that the function does not bind
\* itself (no parameter, not assigned in the body) resolves to the nearest
\* enclosing binding, the builtin names included: the body sees what the
\* defining scope, or else the globals, last bound the name to.
C30_BuiltinsResolveOutward ==
    \A i \in Events("lookup") : \A j \in FrameOf(i) :
        LET F == interp.log[j].function
        IN  ~BindsItself(i, F) => interp.log[i].val = EnclosingValue(i, F)

====
